---- MODULE Spec2Model ----
(***************************************************************************)
(* Model of the colour-extraction core of defpis/image-color:              *)
(*   extractHueHistogram -> gaussianSmoothHistogram -> detectPeaks ->      *)
(*   extractPeakColors (packages/color-extractor/src).                     *)
(*                                                                         *)
(* Numbers.  JavaScript doubles are modelled in fixed point:               *)
(*   lightness, chroma, weights, bucket values : thousandths (0.079 = 79)  *)
(*   hue returned by rgbToOklch                : tenths of a degree        *)
(*   hue of a PeakColor                        : whole degrees             *)
(*   minHeight, threshold (ratios)             : thousandths               *)
(*   sigma                                     : tenths                    *)
(*   colour distances (Delta E 2000)           : hundredths                *)
(* Division truncates.  NaN is a distinguished value that arithmetic       *)
(* propagates and every comparison rejects, as in JavaScript; Undefined is *)
(* what reading an array outside its bounds yields.                        *)
(***************************************************************************)
EXTENDS Integers, Sequences, FiniteSets, TLC

VARIABLES
    stage,            \* which stage's output is the newest: position in the pipeline
    imageData,        \* [data, width, height]: the ImageData given to extractHueHistogram
    hOptions,         \* ExtractHueHistogramOptions of the call (and which variant ran)
    histogram,        \* HueHistogram: buckets, chromaSum, lightnessSum, counts, max, total
    sigma,            \* sigma of the gaussianSmoothHistogram call (tenths)
    smoothedBuckets,  \* result of gaussianSmoothHistogram
    minHeight,        \* DetectPeaksOptions.minHeight of the call (thousandths)
    peaks,            \* result of detectPeaks (sequence of Peak)
    pOptions,         \* ExtractPeakColorsOptions of the call
    sorted,           \* extractPeakColors' local `sorted`
    filtered,         \* extractPeakColors' local `filtered`
    peakColors,       \* result of extractPeakColors
    shared,           \* smoothedBuckets is the very array histogram.buckets
    promise           \* the promise of loadImageData, the events of the Image,
                      \* and the promise extractColors returned

vars == <<stage, imageData, hOptions, histogram, sigma, smoothedBuckets,
          minHeight, peaks, pOptions, sorted, filtered, peakColors, shared,
          promise>>

-----------------------------------------------------------------------------
(* Bounds of the model *)

\* most pixels of an image given to the histogram stage alone
MaxHistPixels == 2

\* pixels of a sharded image
MaxShardPixels == 3

-----------------------------------------------------------------------------
(* JavaScript numbers *)

NaN == -999999999

Undefined == -999999998

IsNaN(x) == x = NaN \/ x = Undefined

\* a + b : NaN (or undefined) in, NaN out
Add(a, b) == IF IsNaN(a) \/ IsNaN(b) THEN NaN ELSE a + b

\* a * b
Mul(a, b) == IF IsNaN(a) \/ IsNaN(b) THEN NaN ELSE a * b

\* a < b : false when either side is NaN
Lt(a, b) == ~IsNaN(a) /\ ~IsNaN(b) /\ a < b

\* a % n of JavaScript: the sign of the result is the sign of a
JsMod(a, n) == IF a >= 0 THEN a % n ELSE 0 - ((0 - a) % n)

Abs(x) == IF x < 0 THEN 0 - x ELSE x

Min2(a, b) == IF a < b THEN a ELSE b

Max2(a, b) == IF a > b THEN a ELSE b

\* one, in thousandths
One == 10 * 100

\* number of hue buckets
HueBuckets == 360

BucketIdx == 0 .. (HueBuckets - 1)

ZeroBuckets == [i \in BucketIdx |-> 0]

\* Math.max(...arr) of an array with indices 0 .. n-1: NaN when any element is
MathMax(arr, n) ==
    IF \E i \in 0 .. (n - 1) : IsNaN(arr[i]) THEN NaN
    ELSE CHOOSE m \in { arr[i] : i \in 0 .. (n - 1) } :
            \A i \in 0 .. (n - 1) : arr[i] <= m

\* arr[lo] + ... + arr[hi], by halves (the sums are exact, so the order of the
\* additions does not show)
RECURSIVE SumRange(_, _, _)
SumRange(arr, lo, hi) ==
    IF lo > hi THEN 0
    ELSE IF lo = hi THEN Add(0, arr[lo])
    ELSE LET mid == (lo + hi) \div 2
         IN  Add(SumRange(arr, lo, mid), SumRange(arr, mid + 1, hi))

-----------------------------------------------------------------------------
(* oklch.ts : rgbToOklch, on the pixels the model draws its images from.    *)
(* L and C in thousandths (rounded), H in tenths of a degree (truncated).   *)
(* Only (0,0,0) has chroma exactly 0.                                       *)

Rust   == <<127, 76, 51>>
Ochre  == <<128, 77, 27>>
Amber  == <<138, 91, 3>>
Blue   == <<0, 0, 255>>
Night  == <<0, 0, 12>>
Grey   == <<120, 114, 108>>
Cream  == <<255, 250, 230>>
Black  == <<0, 0, 0>>
Red    == <<255, 0, 0>>
Taupe  == <<67, 60, 56>>
Gold   == <<180, 109, 0>>
Rose   == <<158, 36, 87>>
Olive  == <<134, 108, 24>>
Teal   == <<16, 180, 159>>
Violet == <<46, 3, 237>>
Copper == <<134, 79, 52>>

rgbToOklch(r, g, b) ==
    IF IsNaN(r) \/ IsNaN(g) \/ IsNaN(b) THEN <<NaN, NaN, NaN>>
    ELSE CASE <<r, g, b>> = Rust  -> <<470, 79, 463>>
           [] <<r, g, b>> = Ochre -> <<470, 93, 610>>
           [] <<r, g, b>> = Amber -> <<510, 107, 738>>
           [] <<r, g, b>> = Blue  -> <<452, 313, 2640>>
           [] <<r, g, b>> = Night -> <<70, 48, 2640>>
           [] <<r, g, b>> = Grey  -> <<556, 12, 675>>
           [] <<r, g, b>> = Cream -> <<984, 27, 953>>
           [] <<r, g, b>> = Black -> <<0, 0, 0>>
           [] <<r, g, b>> = Red   -> <<628, 258, 292>>
           [] <<r, g, b>> = Taupe -> <<362, 12, 518>>
           [] <<r, g, b>> = Gold  -> <<599, 133, 663>>
           [] <<r, g, b>> = Rose  -> <<473, 162, 5>>
           [] <<r, g, b>> = Olive -> <<542, 102, 903>>
           [] <<r, g, b>> = Teal  -> <<691, 123, 1803>>
           [] <<r, g, b>> = Violet -> <<442, 287, 2704>>
           [] <<r, g, b>> = Copper -> <<485, 84, 462>>

\* Math.floor(h) % 360, h in tenths of a degree
HueBucket(h) == IF IsNaN(h) THEN NaN ELSE JsMod(h \div 10, HueBuckets)

-----------------------------------------------------------------------------
(* hue-histogram.ts *)

\* data[offset] of the pixel buffer: undefined past its end
DataAt(data, offset) ==
    IF offset < Len(data) THEN data[offset + 1] ELSE Undefined

\* smoothstep(edge0, edge1, x), in thousandths.  With edge1 = edge0 the quotient
\* is 0/0 = NaN for x = edge0, and +-Infinity otherwise, which the clamp turns
\* into 1 or 0.
smoothstep(edge0, edge1, x) ==
    IF IsNaN(x) THEN NaN
    ELSE IF edge1 = edge0
         THEN (IF x = edge0 THEN NaN ELSE IF x > edge0 THEN One ELSE 0)
         ELSE LET t == Max2(0, Min2(One, ((x - edge0) * One) \div (edge1 - edge0)))
              IN  (t * t * (3 * One - 2 * t)) \div (One * One)

\* one field of the histogram with `v` added at `bucket`; an assignment to
\* index NaN leaves the 360 elements alone
AddAt(arr, bucket, v) ==
    IF IsNaN(bucket) THEN arr ELSE [arr EXCEPT ![bucket] = Add(@, v)]

EmptyAcc ==
    [buckets |-> ZeroBuckets, chromaSum |-> ZeroBuckets,
     lightnessSum |-> ZeroBuckets, counts |-> ZeroBuckets, total |-> 0]

\* mutant of Accumulate: the pixel is added to the sums but not counted
AccumulateUncounted(acc, bucket, weight, l, c) ==
    [buckets      |-> AddAt(acc.buckets, bucket, weight),
     chromaSum    |-> AddAt(acc.chromaSum, bucket, c),
     lightnessSum |-> AddAt(acc.lightnessSum, bucket, l),
     counts       |-> acc.counts,
     total        |-> Add(acc.total, weight)]

Accumulate(acc, bucket, weight, l, c) ==
    [buckets      |-> AddAt(acc.buckets, bucket, weight),
     chromaSum    |-> AddAt(acc.chromaSum, bucket, c),
     lightnessSum |-> AddAt(acc.lightnessSum, bucket, l),
     counts       |-> AddAt(acc.counts, bucket, 1),
     total        |-> Add(acc.total, weight)]

\* weight of one pixel in packages/color-extractor/src/hue-histogram.ts
SmoothWeight(opt, c) ==
    IF opt.weightMode = "count" THEN One ELSE smoothstep(0, opt.threshold, c)

\* mutant of SmoothStepPixel: skips pixels below the chroma threshold
SmoothStepPixelGated(acc, data, i, opt) ==
    LET offset == i * 4
        a   == DataAt(data, offset + 3)
        lch == rgbToOklch(DataAt(data, offset), DataAt(data, offset + 1),
                          DataAt(data, offset + 2))
    IN  IF Lt(a, 200) THEN acc
        ELSE IF Lt(lch[2], opt.threshold) THEN acc
        ELSE IF Lt(lch[1], opt.lightnessMargin)
                \/ Lt(One - opt.lightnessMargin, lch[1])
        THEN acc
        ELSE Accumulate(acc, HueBucket(lch[3]), SmoothWeight(opt, lch[2]),
                        lch[1], lch[2])

\* mutant of SmoothStepPixel: no alpha cutoff
SmoothStepPixelAnyAlpha(acc, data, i, opt) ==
    LET offset == i * 4
        lch == rgbToOklch(DataAt(data, offset), DataAt(data, offset + 1),
                          DataAt(data, offset + 2))
    IN  IF Lt(lch[1], opt.lightnessMargin) \/ Lt(One - opt.lightnessMargin, lch[1])
        THEN acc
        ELSE Accumulate(acc, HueBucket(lch[3]), SmoothWeight(opt, lch[2]),
                        lch[1], lch[2])

\* body of the pixel loop of packages/color-extractor/src/hue-histogram.ts
SmoothStepPixel(acc, data, i, opt) ==
    LET offset == i * 4
        a   == DataAt(data, offset + 3)
        lch == rgbToOklch(DataAt(data, offset), DataAt(data, offset + 1),
                          DataAt(data, offset + 2))
        l == lch[1]
        c == lch[2]
        h == lch[3]
    IN  IF Lt(a, 200) THEN acc
        ELSE IF Lt(l, opt.lightnessMargin) \/ Lt(One - opt.lightnessMargin, l)
        THEN acc
        ELSE Accumulate(acc, HueBucket(h), SmoothWeight(opt, c), l, c)

\* weight of one pixel in the minChroma variant (unnamed/part_000)
GateWeight(opt, l, c) ==
    IF opt.weightMode = "count" THEN One
    ELSE IF opt.weightMode = "chroma" THEN c
    ELSE IF IsNaN(l) \/ IsNaN(c) THEN NaN
    ELSE (c * Max2(One - 2 * Abs(l - One \div 2), 0)) \div One

\* body of the pixel loop of the minChroma variant (unnamed/part_000)
GatePixel(acc, data, i, opt) ==
    LET offset == i * 4
        a   == DataAt(data, offset + 3)
        lch == rgbToOklch(DataAt(data, offset), DataAt(data, offset + 1),
                          DataAt(data, offset + 2))
        l == lch[1]
        c == lch[2]
        h == lch[3]
    IN  IF Lt(a, 200) THEN acc
        ELSE IF Lt(c, opt.threshold) THEN acc
        ELSE IF Lt(l, opt.lightnessMargin) \/ Lt(One - opt.lightnessMargin, l)
        THEN acc
        ELSE Accumulate(acc, HueBucket(h), GateWeight(opt, l, c), l, c)

\* mutant of PixelStep: the lightness window is not applied
PixelStepNoWindow(acc, data, i, opt) ==
    IF opt.variant = "smoothstep"
    THEN SmoothStepPixel(acc, data, i, [opt EXCEPT !.lightnessMargin = 0])
    ELSE GatePixel(acc, data, i, [opt EXCEPT !.lightnessMargin = 0])

PixelStep(acc, data, i, opt) ==
    IF opt.variant = "smoothstep" THEN SmoothStepPixel(acc, data, i, opt)
    ELSE GatePixel(acc, data, i, opt)

\* for (let i = 0; i < width * height; i++) { ... }
RECURSIVE ScanPixels(_, _, _, _, _)
ScanPixels(acc, data, i, n, opt) ==
    IF i >= n THEN acc
    ELSE ScanPixels(PixelStep(acc, data, i, opt), data, i + 1, n, opt)

\* extractHueHistogram(imageData, options)
extractHueHistogram(img, opt) ==
    LET acc == ScanPixels(EmptyAcc, img.data, 0, img.width * img.height, opt)
    IN  [buckets |-> acc.buckets, chromaSum |-> acc.chromaSum,
         lightnessSum |-> acc.lightnessSum, counts |-> acc.counts,
         max |-> MathMax(acc.buckets, HueBuckets), total |-> acc.total]

-----------------------------------------------------------------------------
(* Inputs of the histogram stage *)

\* RGBA pixels: the palette, opaque, and Red at the two sides of the alpha cutoff
HistPixels ==
    { <<p[1], p[2], p[3], 255>> : p \in {Rust, Blue, Night, Grey, Cream, Black} }
    \cup { <<255, 0, 0, 199>>, <<255, 0, 0, 200>> }

RECURSIVE Flatten(_)
Flatten(pixels) ==
    IF pixels = <<>> THEN <<>> ELSE Head(pixels) \o Flatten(Tail(pixels))

SeqsUpTo(S, n) == UNION { [1 .. k -> S] : k \in 0 .. n }

\* an n x 1 image holding the pixels
ImageOf(pixels) ==
    [data |-> Flatten(pixels), width |-> Len(pixels), height |-> 1]

NoImage == [data |-> <<>>, width |-> 0, height |-> 0]

NoOptions == [variant |-> "none"]

\* no image is being loaded: the stage was called with an ImageData at hand
NoPromise ==
    [event |-> "none", load |-> "none", value |-> NoImage, calls |-> 0,
     result |-> "none"]

NoHistogram ==
    [buckets |-> ZeroBuckets, chromaSum |-> ZeroBuckets,
     lightnessSum |-> ZeroBuckets, counts |-> ZeroBuckets, max |-> 0, total |-> 0]

\* options of packages/color-extractor/src/hue-histogram.ts; satThreshold is
\* documented as 0-0.4 (defaults: 0.02 here, 0.1 in extractColors)
SmoothStepOptions ==
    [variant : {"smoothstep"}, weightMode : {"count", "chroma"},
     threshold : {0, 20}, lightnessMargin : {0, 100}]

\* options of the minChroma variant (minChroma is documented as 0-0.4, default 0.02)
GateOptions ==
    [variant : {"minChroma"}, weightMode : {"count", "chroma", "chromaLightness"},
     threshold : {0, 20}, lightnessMargin : {0, 100}]

-----------------------------------------------------------------------------
(* Actions *)

\* extractHueHistogram(imageData, opt) of
\* packages/color-extractor/src/hue-histogram.ts, for any options
ExtractHueHistogram ==
    /\ stage = "image"
    /\ \E opt \in SmoothStepOptions :
         /\ hOptions' = opt
         /\ histogram' = extractHueHistogram(imageData, opt)
    /\ stage' = "histogram"
    /\ UNCHANGED <<promise, imageData, sigma, smoothedBuckets, minHeight, peaks,
                   pOptions, sorted, filtered, peakColors, shared>>

\* extractHueHistogram(imageData, opt) of the minChroma variant, for any options
ExtractHueHistogramMinChroma ==
    /\ stage = "image"
    /\ \E opt \in GateOptions :
         /\ hOptions' = opt
         /\ histogram' = extractHueHistogram(imageData, opt)
    /\ stage' = "histogram"
    /\ UNCHANGED <<promise, imageData, sigma, smoothedBuckets, minHeight, peaks,
                   pOptions, sorted, filtered, peakColors, shared>>

InitRest ==
    /\ sigma = 0
    /\ minHeight = 0
    /\ peaks = <<>>
    /\ pOptions = [mode |-> "none"]
    /\ sorted = <<>>
    /\ filtered = <<>>
    /\ peakColors = <<>>
    /\ shared = FALSE
    /\ promise = NoPromise

(* The histogram stage alone, on every image of up to MaxHistPixels pixels *)
InitHist ==
    /\ stage = "image"
    /\ imageData \in { ImageOf(ps) : ps \in SeqsUpTo(HistPixels, MaxHistPixels) }
    /\ hOptions = NoOptions
    /\ histogram = NoHistogram
    /\ smoothedBuckets = ZeroBuckets
    /\ InitRest

NextHist == ExtractHueHistogram \/ ExtractHueHistogramMinChroma

SpecHist == InitHist /\ [][NextHist]_vars

(* The histogram stage alone, on buffers whose length is not width*height*4 *)

\* a buffer one pixel short, a buffer one pixel long, and a buffer whose last
\* pixel lacks its alpha
MisShapedOf(pixels) ==
    { [data |-> Flatten(pixels), width |-> Len(pixels) + 1, height |-> 1] }
    \cup (IF pixels = <<>> THEN {}
          ELSE { [data |-> Flatten(pixels), width |-> Len(pixels) - 1, height |-> 1],
                 [data |-> SubSeq(Flatten(pixels), 1, 4 * Len(pixels) - 1),
                  width |-> Len(pixels), height |-> 1] })

MisShapedImages ==
    UNION { MisShapedOf(ps) : ps \in SeqsUpTo(HistPixels, MaxHistPixels) }

InitShape ==
    /\ stage = "image"
    /\ imageData \in MisShapedImages
    /\ hOptions = NoOptions
    /\ histogram = NoHistogram
    /\ smoothedBuckets = ZeroBuckets
    /\ InitRest

SpecShape == InitShape /\ [][NextHist]_vars

\* C17: when the buffer's length is not width*height*4, the histogram stage
\* fails with an error and returns no histogram; so a histogram is returned
\* only for a buffer of length width*height*4.
C17_RejectsMisShapedBuffer ==
    stage = "histogram" =>
        Len(imageData.data) = imageData.width * imageData.height * 4

-----------------------------------------------------------------------------
(* Properties of the histogram stage *)

\* the pixels of the image that lie wholly inside the buffer
WholePixels(img) ==
    { i \in 0 .. (img.width * img.height - 1) : i * 4 + 3 < Len(img.data) }

PixelLch(img, i) ==
    rgbToOklch(img.data[i * 4 + 1], img.data[i * 4 + 2], img.data[i * 4 + 3])

PixelAlpha(img, i) == img.data[i * 4 + 4]

\* pixel i passes the alpha cutoff and the lightness window
PassesAlphaAndLightness(img, i, opt) ==
    /\ PixelAlpha(img, i) >= 200
    /\ PixelLch(img, i)[1] >= opt.lightnessMargin
    /\ PixelLch(img, i)[1] <= One - opt.lightnessMargin

\* pixel i has chroma below the chroma threshold of the call
BelowChromaThreshold(img, i, opt) == PixelLch(img, i)[2] < opt.threshold

RECURSIVE SumOver(_, _, _, _)
SumOver(S, lch, k, acc) ==
    IF S = {} THEN acc
    ELSE LET i == CHOOSE x \in S : TRUE
         IN  SumOver(S \ {i}, lch, k, acc + lch[i][k])

\* every bucket of h holds exactly the pixels of P that fall into it: their
\* number, the sum of their chroma and the sum of their lightness
HoldsExactly(h, img, P) ==
    LET lch == [i \in P |-> PixelLch(img, i)]
        bucketOf == [i \in P |-> HueBucket(lch[i][3])]
        used == { bucketOf[i] : i \in P }
    IN  /\ \A b \in used :
              LET inB == { i \in P : bucketOf[i] = b }
              IN  /\ h.counts[b] = Cardinality(inB)
                  /\ h.chromaSum[b] = SumOver(inB, lch, 2, 0)
                  /\ h.lightnessSum[b] = SumOver(inB, lch, 1, 0)
        /\ \A b \in BucketIdx \ used :
              h.counts[b] = 0 /\ h.chromaSum[b] = 0 /\ h.lightnessSum[b] = 0

\* C5 (as stated): every pixel that passes the alpha cutoff and the lightness
\* window is accumulated into chromaSum, lightnessSum and counts of its bucket,
\* whether or not its chroma is below the chroma threshold.
C5_AccumulatedWhateverChroma ==
    stage = "histogram" =>
        HoldsExactly(histogram, imageData,
            { i \in WholePixels(imageData) :
                PassesAlphaAndLightness(imageData, i, hOptions) })

\* C5 (amended): in the smoothstep variant every pixel that passes the alpha
\* cutoff and the lightness window is accumulated into chromaSum, lightnessSum
\* and counts whatever its chroma; in the minChroma variant only those of them
\* whose chroma is at least minChroma are, and a pixel below minChroma adds
\* nothing to any sequence.
C5_AccumulatedPerVariant ==
    stage = "histogram" =>
        HoldsExactly(histogram, imageData,
            { i \in WholePixels(imageData) :
                /\ PassesAlphaAndLightness(imageData, i, hOptions)
                /\ hOptions.variant = "minChroma" =>
                        ~BelowChromaThreshold(imageData, i, hOptions) })

\* C5 witness: the smoothstep variant has counted a pixel whose chroma is below
\* the threshold, with a chroma-dependent weight
C5_Witness ==
    /\ stage = "histogram"
    /\ hOptions.variant = "smoothstep"
    /\ hOptions.weightMode = "chroma"
    /\ \E i \in WholePixels(imageData) :
         /\ PassesAlphaAndLightness(imageData, i, hOptions)
         /\ BelowChromaThreshold(imageData, i, hOptions)
         /\ histogram.counts[HueBucket(PixelLch(imageData, i)[3])] >= 1
         /\ histogram.chromaSum[HueBucket(PixelLch(imageData, i)[3])] > 0

IsNonNegativeNumber(x) == ~IsNaN(x) /\ x >= 0

\* C6: for every configuration of the documented domain (chroma threshold in
\* 0..0.4 including 0, lightnessMargin in 0..0.5), the histogram has four
\* sequences of 360 non-negative numbers, total is the sum of the weight buckets
\* and max is the largest weight bucket.
C6_HistogramWellFormed ==
    stage = "histogram" =>
        /\ \A f \in {"buckets", "chromaSum", "lightnessSum", "counts"} :
              /\ DOMAIN histogram[f] = BucketIdx
              /\ \A b \in BucketIdx : IsNonNegativeNumber(histogram[f][b])
        /\ IsNonNegativeNumber(histogram.total)
        /\ histogram.total = SumRange(histogram.buckets, 0, HueBuckets - 1)
        /\ IsNonNegativeNumber(histogram.max)
        /\ \A b \in BucketIdx : histogram.buckets[b] <= histogram.max
        /\ \E b \in BucketIdx : histogram.buckets[b] = histogram.max

-----------------------------------------------------------------------------
(* gaussian.ts *)

\* Math.exp(-(x * x) / (2 * sigma * sigma)) in ten-thousandths (rounded), for
\* x = 0, 1, ..., ceil(3 * sigma), for the sigmas the model uses
GaussSigma1 == <<10000, 6065, 1353, 111>>

GaussSigma2 == <<10000, 8825, 6065, 3247, 1353, 439, 111>>

GaussSigma6 ==
    << 10000, 9862, 9460, 8825, 8007, 7066, 6065, 5063, 4111, 3247, 2494, 1863, 1353, 956,
       657, 439, 286, 181, 111 >>

GaussSigma121 ==
    << 10000, 10000, 9999, 9997, 9995, 9991, 9988, 9983, 9978, 9972, 9966, 9959, 9951, 9942,
       9933, 9923, 9913, 9902, 9890, 9877, 9864, 9851, 9836, 9821, 9805, 9789, 9772, 9754,
       9736, 9717, 9697, 9677, 9656, 9635, 9613, 9590, 9567, 9543, 9519, 9494, 9468, 9442,
       9415, 9388, 9360, 9332, 9303, 9273, 9243, 9213, 9182, 9150, 9118, 9085, 9052, 9019,
       8984, 8950, 8915, 8879, 8843, 8807, 8770, 8732, 8695, 8656, 8618, 8579, 8539, 8499,
       8459, 8418, 8377, 8336, 8294, 8252, 8210, 8167, 8124, 8080, 8037, 7993, 7948, 7904,
       7859, 7813, 7768, 7722, 7676, 7630, 7583, 7537, 7490, 7443, 7395, 7348, 7300, 7252,
       7204, 7155, 7107, 7058, 7010, 6961, 6912, 6863, 6813, 6764, 6714, 6665, 6615, 6565,
       6516, 6466, 6416, 6366, 6316, 6266, 6216, 6166, 6115, 6065, 6015, 5965, 5915, 5865,
       5815, 5765, 5715, 5665, 5615, 5565, 5515, 5466, 5416, 5367, 5317, 5268, 5219, 5169,
       5120, 5071, 5023, 4974, 4926, 4877, 4829, 4781, 4733, 4685, 4638, 4590, 4543, 4496,
       4449, 4402, 4356, 4309, 4263, 4217, 4172, 4126, 4081, 4036, 3991, 3947, 3902, 3858,
       3814, 3771, 3727, 3684, 3641, 3598, 3556, 3514, 3472, 3430, 3389, 3348, 3307, 3267,
       3226, 3186, 3147, 3107, 3068, 3029, 2991, 2953, 2915, 2877, 2840, 2802, 2766, 2729,
       2693, 2657, 2621, 2586, 2551, 2516, 2482, 2448, 2414, 2381, 2348, 2315, 2282, 2250,
       2218, 2186, 2155, 2124, 2093, 2063, 2032, 2003, 1973, 1944, 1915, 1886, 1858, 1830,
       1802, 1775, 1748, 1721, 1694, 1668, 1642, 1617, 1591, 1566, 1541, 1517, 1493, 1469,
       1445, 1422, 1399, 1376, 1353, 1331, 1309, 1287, 1266, 1245, 1224, 1203, 1183, 1163,
       1143, 1124, 1104, 1085, 1067, 1048, 1030, 1012, 994, 976, 959, 942, 925, 909,
       892, 876, 860, 845, 829, 814, 799, 785, 770, 756, 742, 728, 714, 701,
       687, 674, 662, 649, 636, 624, 612, 600, 589, 577, 566, 555, 544, 533,
       522, 512, 502, 492, 482, 472, 463, 453, 444, 435, 426, 417, 409, 400,
       392, 384, 376, 368, 360, 352, 345, 338, 330, 323, 316, 310, 303, 296,
       290, 284, 277, 271, 265, 259, 254, 248, 243, 237, 232, 227, 222, 217,
       212, 207, 202, 197, 193, 189, 184, 180, 176, 172, 168, 164, 160, 156,
       152, 149, 145, 142, 138, 135, 132, 129, 126, 123, 120, 117, 114, 111 >>

GaussValue(s, x) ==
    CASE s = 10   -> GaussSigma1[Abs(x) + 1]
      [] s = 20   -> GaussSigma2[Abs(x) + 1]
      [] s = 60   -> GaussSigma6[Abs(x) + 1]
      [] s = 1210 -> GaussSigma121[Abs(x) + 1]

\* one, for the kernel's weights (ten-thousandths)
KernelOne == 100 * 100

\* Math.ceil(sigma * 3)
KernelRadius(s) == (s * 3 + 9) \div 10

\* generateGaussianKernel(sigma): indices 0 .. 2 * radius, normalised
generateGaussianKernel(s) ==
    LET radius == KernelRadius(s)
        size == radius * 2 + 1
        kernel == [i \in 0 .. (size - 1) |-> GaussValue(s, i - radius)]
        sum == SumRange(kernel, 0, size - 1)
    IN  [i \in 0 .. (size - 1) |-> (kernel[i] * KernelOne) \div sum]

\* buckets[idx] of an array of length len: undefined outside 0 .. len-1
BucketAt(buckets, len, idx) ==
    IF idx >= 0 /\ idx < len THEN buckets[idx] ELSE Undefined

\* mutant of TapIndex: the index is not wrapped round the ring
TapIndexNoWrap(i, k, radius, len) == i + k - radius

\* the index read by tap k of output i
TapIndex(i, k, radius, len) == JsMod(i + k - radius + len, len)

\* sum of buckets[idx] * kernel[k] over the taps lo .. hi of output i
RECURSIVE TapSum(_, _, _, _, _, _, _)
TapSum(buckets, len, kernel, radius, i, lo, hi) ==
    IF lo = hi
    THEN Mul(BucketAt(buckets, len, TapIndex(i, lo, radius, len)), kernel[lo])
    ELSE LET mid == (lo + hi) \div 2
         IN  Add(TapSum(buckets, len, kernel, radius, i, lo, mid),
                 TapSum(buckets, len, kernel, radius, i, mid + 1, hi))

\* a sum of products with the kernel, back in thousandths
Descale(x) == IF IsNaN(x) THEN NaN ELSE x \div KernelOne

\* gaussianSmoothHistogram(buckets, sigma), buckets of length len
gaussianSmoothHistogram(buckets, len, s) ==
    IF s <= 0 THEN buckets
    ELSE LET kernel == generateGaussianKernel(s)
             size == KernelRadius(s) * 2 + 1
             radius == size \div 2
         IN  [i \in 0 .. (len - 1) |->
                Descale(TapSum(buckets, len, kernel, radius, i, 0, size - 1))]

\* mutant of ReturnsInputArray: `return buckets` when sigma <= 0
ReturnsInputArrayNoCopy(s) == s <= 0

\* whether the array returned is the array passed in: never, [...buckets] and
\* new Array(len) both make a new array
ReturnsInputArray(s) == IF s <= 0 THEN FALSE ELSE FALSE

-----------------------------------------------------------------------------
(* Inputs of the smoothing and peak stages: bucket arrays *)

\* longest pattern of values laid on an empty ring
MaxPatLen == 3

\* largest value of a pattern
MaxPatVal == 2

\* the ring that is 0 except for vals[1], vals[2], ... at offset, offset+1, ...
PatternRing(vals, offset, unit) ==
    [i \in BucketIdx |->
        LET d == (i - offset + HueBuckets) % HueBuckets
        IN  IF d < Len(vals) THEN vals[d + 1] * unit ELSE 0]

PatternRings(unit) ==
    { PatternRing(vals, offset, unit) :
        vals \in [1 .. MaxPatLen -> 0 .. MaxPatVal],
        offset \in {0, HueBuckets - 1, 100} }

\* the arrays smoothed with the widest kernel too
WideKernelInputs ==
    { PatternRing(<<v>>, offset, One) : v \in 1 .. MaxPatVal, offset \in {0, 100} }

\* sigma of a call, in tenths: negative, 0, 1, 2 (the default) and 121, whose
\* kernel is wider than the ring
SigmasFor(buckets) ==
    IF buckets \in WideKernelInputs THEN {-10, 0, 10, 20, 1210}
    ELSE {-10, 0, 10, 20}

\* gaussianSmoothHistogram(histogram.buckets, sigma)
GaussianSmoothHistogram ==
    /\ stage = "histogram"
    /\ \E s \in SigmasFor(histogram.buckets) :
         /\ sigma' = s
         /\ smoothedBuckets' = gaussianSmoothHistogram(histogram.buckets, HueBuckets, s)
         /\ shared' = ReturnsInputArray(s)
    /\ stage' = "smoothed"
    /\ UNCHANGED <<promise, imageData, hOptions, histogram, minHeight, peaks,
                   pOptions, sorted, filtered, peakColors>>

(* The smoothing stage alone, on pattern rings *)
InitSmooth ==
    /\ stage = "histogram"
    /\ imageData = NoImage
    /\ hOptions = NoOptions
    /\ \E b \in PatternRings(One) :
         histogram = [NoHistogram EXCEPT !.buckets = b]
    /\ smoothedBuckets = ZeroBuckets
    /\ InitRest

\* the caller writes into the array it was returned: result[i] = v
WriteSmoothed ==
    /\ stage = "smoothed"
    /\ \E i \in {0, HueBuckets - 1} :
         LET v == IF IsNaN(smoothedBuckets[i]) THEN 0 ELSE smoothedBuckets[i] + 1
         IN  /\ smoothedBuckets' = [smoothedBuckets EXCEPT ![i] = v]
             /\ histogram' = IF shared
                              THEN [histogram EXCEPT !.buckets = smoothedBuckets']
                              ELSE histogram
    /\ stage' = "written"
    /\ UNCHANGED <<promise, imageData, hOptions, sigma, minHeight, peaks, pOptions,
                   sorted, filtered, peakColors, shared>>

NextSmooth == GaussianSmoothHistogram \/ WriteSmoothed

SpecSmooth == InitSmooth /\ [][NextSmooth]_vars

\* the buckets whose smoothed value has a non-zero bucket under the kernel
UnderKernel(buckets, radius) ==
    { i \in BucketIdx :
        \E k \in (0 - radius) .. radius : buckets[(i + k) % HueBuckets] # 0 }

\* by how much the sum of the smoothed values may differ from the sum of the
\* buckets through rounding alone: each weight of the kernel is rounded to
\* 1 / KernelOne, each smoothed value to a thousandth
RoundingAllowance(buckets, s) ==
    LET size == KernelRadius(s) * 2 + 1
    IN  (SumRange(buckets, 0, HueBuckets - 1) * size) \div KernelOne
        + Cardinality(UnderKernel(buckets, KernelRadius(s))) + 1

\* C12: for sigma > 0 smoothing preserves the total mass: the sum of the 360
\* smoothed values equals the sum of the 360 buckets (up to rounding).
C12_MassPreserved ==
    (stage = "smoothed" /\ sigma > 0) =>
        LET before == SumRange(histogram.buckets, 0, HueBuckets - 1)
            after  == SumRange(smoothedBuckets, 0, HueBuckets - 1)
        IN  /\ ~IsNaN(after)
            /\ Abs(after - before) <= RoundingAllowance(histogram.buckets, sigma)

\* C11: for sigma <= 0 gaussianSmoothHistogram returns an array of the same
\* length, element-wise equal to the input, and a fresh copy: a later write to
\* the result leaves the input as it was.
C11_IdentityCopy ==
    [][/\ (stage = "histogram" /\ stage' = "smoothed" /\ sigma' <= 0) =>
            /\ DOMAIN smoothedBuckets' = DOMAIN histogram.buckets
            /\ \A i \in DOMAIN histogram.buckets :
                  smoothedBuckets'[i] = histogram.buckets[i]
       /\ (stage = "smoothed" /\ stage' = "written" /\ sigma <= 0) =>
            histogram' = histogram]_vars

C11_Witness ==
    /\ stage = "written"
    /\ sigma < 0
    /\ \E i \in BucketIdx : histogram.buckets[i] > 0
    /\ smoothedBuckets # histogram.buckets

\* (i + k - radius) mod 360, the index the convolution is meant to read
WrapIndex(i, k, radius) == (i + k - radius) % HueBuckets

RECURSIVE CircularSum(_, _, _, _, _, _)
CircularSum(buckets, kernel, radius, i, lo, hi) ==
    IF lo = hi THEN buckets[WrapIndex(i, lo, radius)] * kernel[lo]
    ELSE LET mid == (lo + hi) \div 2
         IN  CircularSum(buckets, kernel, radius, i, lo, mid)
             + CircularSum(buckets, kernel, radius, i, mid + 1, hi)

\* C4: for every sigma > 0 and every i, the output at i is the sum over the
\* kernel's taps k of buckets[(i + k - radius) mod 360] * kernel[k], with
\* radius = ceil(3 * sigma): every tap reads a bucket of 0..359 by wrap-around,
\* also when the kernel's radius is larger than the ring.
C4_CircularConvolution ==
    (stage = "smoothed" /\ sigma > 0) =>
        LET radius == KernelRadius(sigma)
            kernel == generateGaussianKernel(sigma)
        IN  \A i \in BucketIdx :
                /\ \A k \in 0 .. (2 * radius) :
                      TapIndex(i, k, radius, HueBuckets) \in BucketIdx
                /\ smoothedBuckets[i] =
                      CircularSum(histogram.buckets, kernel, radius, i, 0, 2 * radius)
                        \div KernelOne

-----------------------------------------------------------------------------
(* peaks.ts *)

\* a >= b : false when either side is NaN
Ge(a, b) == ~IsNaN(a) /\ ~IsNaN(b) /\ a >= b

\* curr >= threshold, threshold = max * minHeight (minHeight in thousandths)
AboveThreshold(curr, max, mh) ==
    ~IsNaN(curr) /\ ~IsNaN(max) /\ curr * One >= max * mh

\* mutant of IsLocalMaximum: curr >= next, so the end of a plateau is a peak
IsLocalMaximumNonStrict(buckets, len, i, max, mh) ==
    LET prev == buckets[(i - 1 + len) % len]
        curr == buckets[i]
        next == buckets[(i + 1) % len]
    IN  Lt(prev, curr) /\ Ge(curr, next) /\ AboveThreshold(curr, max, mh)

\* the test of the first loop: bucket i is a local maximum above the threshold
IsLocalMaximum(buckets, len, i, max, mh) ==
    LET prev == buckets[(i - 1 + len) % len]
        curr == buckets[i]
        next == buckets[(i + 1) % len]
    IN  Lt(prev, curr) /\ Lt(next, curr) /\ AboveThreshold(curr, max, mh)

\* the elements of a set of numbers, ascending
Ascending(S) ==
    [k \in 1 .. Cardinality(S) |->
        CHOOSE x \in S : Cardinality({ y \in S : y < x }) = k - 1]

\* mutant of ScanSteps: one step more, i <= len / 2
ScanStepsHalfRing(len) == 1 .. (len \div 2)

\* mutant of ScanSteps: the walk may go all the way round, i < len
ScanStepsWholeRing(len) == 1 .. (len - 1)

\* the steps i of the boundary loops: for (let i = 1; i < len / 2; i++)
ScanSteps(len) == 1 .. ((len - 1) \div 2)

\* mutant of WalkEnds: curr > inner, so a plateau does not end the walk
WalkEndsOnRise(curr, inner) == Lt(inner, curr)

\* the test that ends a boundary walk at the bucket `curr`, `inner` being its
\* neighbour on the peak's side: a valley or a plateau
WalkEnds(curr, inner) == Ge(curr, inner)

Least(S) == CHOOSE x \in S : \A y \in S : x <= y

Greatest(S) == CHOOSE x \in S : \A y \in S : x >= y

\* the left boundary of the peak at `index`
LeftBoundary(buckets, len, index) ==
    LET idx(i) == (index - i + len) % len
        ends == { i \in ScanSteps(len) :
                    WalkEnds(buckets[idx(i)], buckets[(idx(i) + 1) % len]) }
    IN  IF ends # {} THEN (idx(Least(ends)) + 1) % len
        ELSE IF ScanSteps(len) = {} THEN index
        ELSE idx(Greatest(ScanSteps(len)))

\* mutant of RightBoundary: right = idx, the bucket that ended the walk
RightBoundaryPastValley(buckets, len, index) ==
    LET idx(i) == (index + i) % len
        ends == { i \in ScanSteps(len) :
                    WalkEnds(buckets[idx(i)], buckets[(idx(i) - 1 + len) % len]) }
    IN  IF ends # {} THEN idx(Least(ends))
        ELSE IF ScanSteps(len) = {} THEN index
        ELSE idx(Greatest(ScanSteps(len)))

\* the right boundary of the peak at `index`
RightBoundary(buckets, len, index) ==
    LET idx(i) == (index + i) % len
        ends == { i \in ScanSteps(len) :
                    WalkEnds(buckets[idx(i)], buckets[(idx(i) - 1 + len) % len]) }
    IN  IF ends # {} THEN (idx(Least(ends)) - 1 + len) % len
        ELSE IF ScanSteps(len) = {} THEN index
        ELSE idx(Greatest(ScanSteps(len)))

\* mutant of SortedPosition: the comparator a[key] - b[key], ascending
SortedPositionAscending(list, key, j) ==
    1 + Cardinality({ i \in 1 .. Len(list) :
                        \/ list[i][key] < list[j][key]
                        \/ list[i][key] = list[j][key] /\ i < j })

\* position (from 1) of element j after list.sort((a, b) => b[key] - a[key]):
\* descending by key, and stable
SortedPosition(list, key, j) ==
    1 + Cardinality({ i \in 1 .. Len(list) :
                        \/ list[i][key] > list[j][key]
                        \/ list[i][key] = list[j][key] /\ i < j })

SortDescending(list, key) ==
    [k \in 1 .. Len(list) |->
        list[CHOOSE j \in 1 .. Len(list) : SortedPosition(list, key, j) = k]]

\* detectPeaks(buckets, { minHeight })
detectPeaks(buckets, len, mh) ==
    LET max == MathMax(buckets, len)
        maxima == Ascending({ i \in 0 .. (len - 1) :
                                IsLocalMaximum(buckets, len, i, max, mh) })
        found == [k \in 1 .. Len(maxima) |->
                    [index |-> maxima[k],
                     value |-> buckets[maxima[k]],
                     left  |-> LeftBoundary(buckets, len, maxima[k]),
                     right |-> RightBoundary(buckets, len, maxima[k])]]
    IN  SortDescending(found, "value")

-----------------------------------------------------------------------------
(* Inputs of the peak stage *)

\* a ring that falls by 1 per bucket on both sides of p, down to 0 opposite p
ConeRing(p) ==
    [i \in BucketIdx |->
        LET d == (i - p + HueBuckets) % HueBuckets
        IN  HueBuckets \div 2 - Min2(d, HueBuckets - d)]

\* a ring that rises by 1 per bucket from p+1 all the way round to p
SawRing(p) ==
    [i \in BucketIdx |-> (i - p - 1 + 2 * HueBuckets) % HueBuckets]

\* a ring with one more bucket raised to v
WithSpike(ring, at, v) == [ring EXCEPT ![at] = v]

PeakInputs ==
    PatternRings(One)
    \cup { WithSpike(r, 200, One) : r \in PatternRings(One) }
    \cup { ConeRing(p) : p \in {0, 100, HueBuckets - 1} }
    \cup { SawRing(p) : p \in {0, 100, HueBuckets - 1} }

\* minHeight of a call, thousandths (default 0.1; extractColors passes 0.005)
MinHeights == {0, 5, 100, 500, One}

\* detectPeaks(smoothedBuckets, { minHeight })
DetectPeaks ==
    /\ stage = "smoothed"
    /\ \E mh \in MinHeights :
         /\ minHeight' = mh
         /\ peaks' = detectPeaks(smoothedBuckets, HueBuckets, mh)
    /\ stage' = "peaks"
    /\ UNCHANGED <<promise, imageData, hOptions, histogram, sigma, smoothedBuckets,
                   pOptions, sorted, filtered, peakColors, shared>>

(* The peak stage alone *)
InitPeaks ==
    /\ stage = "smoothed"
    /\ imageData = NoImage
    /\ hOptions = NoOptions
    /\ histogram = NoHistogram
    /\ smoothedBuckets \in PeakInputs
    /\ InitRest

NextPeaks == DetectPeaks

SpecPeaks == InitPeaks /\ [][NextPeaks]_vars

-----------------------------------------------------------------------------
(* Properties of the peak stage *)

PeakAt(i) == { k \in 1 .. Len(peaks) : peaks[k].index = i }

\* bucket i is a strict local maximum of the ring that reaches the threshold
StrictMaximumAboveThreshold(b, i, mh) ==
    /\ b[i] > b[(i - 1) % HueBuckets]
    /\ b[i] > b[(i + 1) % HueBuckets]
    /\ b[i] * One >= Greatest({ b[j] : j \in BucketIdx }) * mh

\* C7: detectPeaks returns a peak with index i exactly when buckets[i] is
\* larger than both ring neighbours and at least max(buckets) * minHeight; each
\* such i appears once, the peak's value is buckets[i], and a bucket equal to a
\* neighbour is never a peak.
C7_PeaksAreStrictLocalMaxima ==
    stage = "peaks" =>
        /\ \A i \in BucketIdx :
              Cardinality(PeakAt(i)) =
                IF StrictMaximumAboveThreshold(smoothedBuckets, i, minHeight)
                THEN 1 ELSE 0
        /\ \A k \in 1 .. Len(peaks) :
              /\ peaks[k].index \in BucketIdx
              /\ peaks[k].value = smoothedBuckets[peaks[k].index]
        /\ \A i \in BucketIdx :
              (\/ smoothedBuckets[i] = smoothedBuckets[(i - 1) % HueBuckets]
               \/ smoothedBuckets[i] = smoothedBuckets[(i + 1) % HueBuckets])
              => PeakAt(i) = {}

\* C7 witness: bucket 0 is a peak over its ring neighbours 359 and 1, and a
\* strict local maximum below the threshold was left out
C7_Witness ==
    /\ stage = "peaks"
    /\ PeakAt(0) # {}
    /\ smoothedBuckets[HueBuckets - 1] > 0
    /\ \E i \in BucketIdx :
         /\ smoothedBuckets[i] > smoothedBuckets[(i - 1) % HueBuckets]
         /\ smoothedBuckets[i] > smoothedBuckets[(i + 1) % HueBuckets]
         /\ PeakAt(i) = {}

\* bucket i lies on the arc that runs clockwise from left to right
InArc(left, right, i) ==
    IF right >= left THEN left <= i /\ i <= right
    ELSE i >= left \/ i <= right

\* C8: for every peak, left and right are buckets of 0..359 and the arc from
\* left clockwise to right (through 0 when right < left) contains index.
C8_ArcContainsIndex ==
    stage = "peaks" =>
        \A k \in 1 .. Len(peaks) :
            /\ peaks[k].left \in BucketIdx
            /\ peaks[k].right \in BucketIdx
            /\ InArc(peaks[k].left, peaks[k].right, peaks[k].index)

\* C8 witness: a peak whose arc wraps through 0 and is wider than the peak,
\* and a peak whose walk went on to the scan limit
C8_Witness ==
    /\ stage = "peaks"
    /\ \E k \in 1 .. Len(peaks) :
         /\ peaks[k].right < peaks[k].left
         /\ peaks[k].left # peaks[k].index
         /\ (peaks[k].index - peaks[k].left) % HueBuckets = (HueBuckets - 1) \div 2

\* the bucket n steps from the peak, counter-clockwise (d = -1) or clockwise (d = 1)
StepsOut(pk, d, n) == (pk.index + d * n) % HueBuckets

\* how many steps the boundary on side d lies from the peak
BoundarySteps(pk, d) ==
    IF d = 1 THEN (pk.right - pk.index) % HueBuckets
    ELSE (pk.index - pk.left) % HueBuckets

NonIncreasingOut(b, pk, d, n) ==
    \A j \in 1 .. n : b[StepsOut(pk, d, j)] <= b[StepsOut(pk, d, j - 1)]

StrictlyDecreasingOut(b, pk, d, n) ==
    \A j \in 1 .. n : b[StepsOut(pk, d, j)] < b[StepsOut(pk, d, j - 1)]

\* the farthest step of a boundary walk
ScanLimit == (HueBuckets - 1) \div 2

\* C9 (as stated): on each side the boundary is the farthest bucket within the
\* scan limit such that the values from index out to it are non-increasing,
\* and the bucket one step beyond it breaks that.
C9_WidestNonIncreasingRun ==
    stage = "peaks" =>
        \A k \in 1 .. Len(peaks) : \A d \in {-1, 1} :
            LET n == BoundarySteps(peaks[k], d)
            IN  /\ n <= ScanLimit
                /\ NonIncreasingOut(smoothedBuckets, peaks[k], d, n)
                /\ \A m \in (n + 1) .. ScanLimit :
                      ~NonIncreasingOut(smoothedBuckets, peaks[k], d, m)
                /\ smoothedBuckets[StepsOut(peaks[k], d, n + 1)]
                     > smoothedBuckets[StepsOut(peaks[k], d, n)]

\* C9 (amended): on each side the boundary is the farthest bucket within the
\* scan limit of 179 steps such that the values from index out to it are
\* strictly decreasing; unless the limit was reached, the bucket one step
\* beyond it is not smaller (a plateau ends the run as a rise does).
C9_WidestStrictlyDecreasingRun ==
    stage = "peaks" =>
        \A k \in 1 .. Len(peaks) : \A d \in {-1, 1} :
            LET n == BoundarySteps(peaks[k], d)
            IN  /\ n <= ScanLimit
                /\ StrictlyDecreasingOut(smoothedBuckets, peaks[k], d, n)
                /\ \/ n = ScanLimit
                   \/ smoothedBuckets[StepsOut(peaks[k], d, n + 1)]
                        >= smoothedBuckets[StepsOut(peaks[k], d, n)]

\* C9 witness: a walk that went at least one step out and ended at a plateau
C9_Witness ==
    /\ stage = "peaks"
    /\ \E k \in 1 .. Len(peaks) : \E d \in {-1, 1} :
         LET n == BoundarySteps(peaks[k], d)
         IN  /\ n >= 1
             /\ n < ScanLimit
             /\ smoothedBuckets[StepsOut(peaks[k], d, n + 1)]
                  = smoothedBuckets[StepsOut(peaks[k], d, n)]
             /\ smoothedBuckets[StepsOut(peaks[k], d, n)] > 0

\* C10: the peaks are ordered by value, descending; peaks of equal value keep
\* ascending index order.
C10_SortedByValue ==
    stage = "peaks" =>
        \A k \in 1 .. (Len(peaks) - 1) :
            \/ peaks[k].value > peaks[k + 1].value
            \/ /\ peaks[k].value = peaks[k + 1].value
               /\ peaks[k].index < peaks[k + 1].index

\* C10 witness: three peaks, the sort moved a higher peak in front of a lower
\* one with a smaller index, and two peaks have the same value
C10_Witness ==
    /\ stage = "peaks"
    /\ Len(peaks) >= 3
    /\ \E k \in 1 .. (Len(peaks) - 1) :
         peaks[k].value > peaks[k + 1].value /\ peaks[k].index > peaks[k + 1].index
    /\ \E k \in 1 .. (Len(peaks) - 1) : peaks[k].value = peaks[k + 1].value

-----------------------------------------------------------------------------
(* extract-peak-colors.ts *)

\* one, for the values of Math.cos and Math.sin
TrigOne == 100 * 100

\* TrigOne * cos(k / 2 degrees), k = 0 .. 180, rounded
CosQuarter ==
    << 10000, 10000, 9998, 9997, 9994, 9990, 9986, 9981, 9976, 9969, 9962, 9954, 9945, 9936,
       9925, 9914, 9903, 9890, 9877, 9863, 9848, 9833, 9816, 9799, 9781, 9763, 9744, 9724,
       9703, 9681, 9659, 9636, 9613, 9588, 9563, 9537, 9511, 9483, 9455, 9426, 9397, 9367,
       9336, 9304, 9272, 9239, 9205, 9171, 9135, 9100, 9063, 9026, 8988, 8949, 8910, 8870,
       8829, 8788, 8746, 8704, 8660, 8616, 8572, 8526, 8480, 8434, 8387, 8339, 8290, 8241,
       8192, 8141, 8090, 8039, 7986, 7934, 7880, 7826, 7771, 7716, 7660, 7604, 7547, 7490,
       7431, 7373, 7314, 7254, 7193, 7133, 7071, 7009, 6947, 6884, 6820, 6756, 6691, 6626,
       6561, 6494, 6428, 6361, 6293, 6225, 6157, 6088, 6018, 5948, 5878, 5807, 5736, 5664,
       5592, 5519, 5446, 5373, 5299, 5225, 5150, 5075, 5000, 4924, 4848, 4772, 4695, 4617,
       4540, 4462, 4384, 4305, 4226, 4147, 4067, 3987, 3907, 3827, 3746, 3665, 3584, 3502,
       3420, 3338, 3256, 3173, 3090, 3007, 2924, 2840, 2756, 2672, 2588, 2504, 2419, 2334,
       2250, 2164, 2079, 1994, 1908, 1822, 1736, 1650, 1564, 1478, 1392, 1305, 1219, 1132,
       1045, 958, 872, 785, 698, 610, 523, 436, 349, 262, 175, 87, 0 >>

\* TrigOne * cos(k / 2 degrees), any integer k
CosHalfDeg(k) ==
    LET m == k % 720
    IN  IF m <= 180 THEN CosQuarter[m + 1]
        ELSE IF m <= 360 THEN 0 - CosQuarter[360 - m + 1]
        ELSE IF m <= 540 THEN 0 - CosQuarter[m - 360 + 1]
        ELSE CosQuarter[720 - m + 1]

SinHalfDeg(k) == CosHalfDeg(k - 180)

\* Math.cos((idx * Math.PI) / 180)
MathCos(idx) == CosHalfDeg(2 * idx)

\* mutant of MathSin: the sine with its sign changed
MathSinNegated(idx) == 0 - SinHalfDeg(2 * idx)

\* Math.sin((idx * Math.PI) / 180)
MathSin(idx) == SinHalfDeg(2 * idx)

\* a / b
Div(a, b) == IF IsNaN(a) \/ IsNaN(b) THEN NaN ELSE a \div b

\* (Math.atan2(y, x) * 180) / Math.PI, plus 360 when negative: the whole degree
\* nearest to the direction of (x, y); atan2(0, 0) is 0
HueOfVector(y, x) ==
    IF IsNaN(y) \/ IsNaN(x) THEN NaN
    ELSE IF x = 0 /\ y = 0 THEN 0
    ELSE LET f  == Max2(Abs(x), Abs(y)) \div (100 * One) + 1
             vx == IF x >= 0 THEN x \div f ELSE 0 - ((0 - x) \div f)
             vy == IF y >= 0 THEN y \div f ELSE 0 - ((0 - y) \div f)
             cross(ax, ay, bx, by) == ax * by - ay * bx
         IN  CHOOSE h \in BucketIdx :
                /\ cross(CosHalfDeg(2 * h - 1), SinHalfDeg(2 * h - 1), vx, vy) >= 0
                /\ cross(vx, vy, CosHalfDeg(2 * h + 1), SinHalfDeg(2 * h + 1)) >= 0
                /\ vx * CosHalfDeg(2 * h) + vy * SinHalfDeg(2 * h) > 0

\* mutant of getPeakIndices: without the wrap-around branch
getPeakIndicesNoWrap(peak) ==
    [k \in 1 .. (peak.right - peak.left + 1) |-> peak.left + k - 1]

\* getPeakIndices(peak)
getPeakIndices(peak) ==
    IF peak.right >= peak.left
    THEN [k \in 1 .. (peak.right - peak.left + 1) |-> peak.left + k - 1]
    ELSE [k \in 1 .. (360 - peak.left) |-> peak.left + k - 1]
         \o [k \in 1 .. (peak.right + 1) |-> k - 1]

\* calculatePeakWeight(buckets, peak)
calculatePeakWeight(buckets, peak) ==
    LET indices == getPeakIndices(peak)
        terms   == [k \in 1 .. Len(indices) |->
                        BucketAt(buckets, HueBuckets, indices[k])]
    IN  SumRange(terms, 1, Len(indices))

\* the colours oklchToLab and deltaE2000 are tabulated for: the peak colours of
\* Rust, Ochre, Amber and Blue
KnownColors ==
    << [hue |-> 46,  chroma |-> 79,  lightness |-> 470],
       [hue |-> 61,  chroma |-> 93,  lightness |-> 470],
       [hue |-> 73,  chroma |-> 107, lightness |-> 510],
       [hue |-> 264, chroma |-> 313, lightness |-> 452] >>

\* deltaE2000(oklchToLab(c1), oklchToLab(c2)) of the known colours, hundredths
DeltaE2000Table ==
    << <<0,    753,  1454, 4431>>,
       <<753,  0,    774,  5258>>,
       <<1454, 774,  0,    6084>>,
       <<4431, 5258, 6084, 0>> >>

ColorIndex(c) ==
    CHOOSE k \in 1 .. Len(KnownColors) :
        KnownColors[k] =
            [hue |-> c.hue, chroma |-> c.chroma, lightness |-> c.lightness]

\* colorDistance(c1, c2)
colorDistance(c1, c2) == DeltaE2000Table[ColorIndex(c1)][ColorIndex(c2)]

\* mutant of FilterStep: the replaced colour is taken out and the candidate
\* is pushed at the end
FilterStepPushesReplacement(result, color, minDistance) ==
    LET close == { i \in 1 .. Len(result) :
                     Lt(colorDistance(color, result[i]), minDistance) }
    IN  IF close = {} THEN Append(result, color)
        ELSE IF Lt(result[Least(close)].chroma, color.chroma)
             THEN Append(SubSeq(result, 1, Least(close) - 1)
                            \o SubSeq(result, Least(close) + 1, Len(result)),
                         color)
             ELSE result

\* mutant of FilterStep: a candidate that takes a colour's place is pushed
\* as well
FilterStepKeepsBoth(result, color, minDistance) ==
    LET close == { i \in 1 .. Len(result) :
                     Lt(colorDistance(color, result[i]), minDistance) }
    IN  IF close = {} THEN Append(result, color)
        ELSE IF Lt(result[Least(close)].chroma, color.chroma)
             THEN Append([result EXCEPT ![Least(close)] = color], color)
             ELSE result

\* one turn of filterByDistance's outer loop: `color` against `result`
FilterStep(result, color, minDistance) ==
    LET close == { i \in 1 .. Len(result) :
                     Lt(colorDistance(color, result[i]), minDistance) }
    IN  IF close = {} THEN Append(result, color)
        ELSE IF Lt(result[Least(close)].chroma, color.chroma)
             THEN [result EXCEPT ![Least(close)] = color]
             ELSE result

RECURSIVE FilterFrom(_, _, _, _)
FilterFrom(colors, k, result, minDistance) ==
    IF k > Len(colors) THEN result
    ELSE FilterFrom(colors, k + 1, FilterStep(result, colors[k], minDistance),
                    minDistance)

\* filterByDistance(colors, minDistance), minDistance in hundredths
filterByDistance(colors, minDistance) ==
    IF (~IsNaN(minDistance) /\ minDistance <= 0) \/ Len(colors) <= 1 THEN colors
    ELSE FilterFrom(colors, 1, <<>>, minDistance)

\* mutant of PeakModeColor: a peak is kept whatever counts[peak.index] is
PeakModeColorAnyCount(hist, peak) ==
    LET count == hist.counts[peak.index]
    IN  << [hue       |-> peak.index,
            chroma    |-> IF count = 0 THEN NaN
                          ELSE Div(hist.chromaSum[peak.index], count),
            lightness |-> IF count = 0 THEN NaN
                          ELSE Div(hist.lightnessSum[peak.index], count)] >>

\* the colour of a peak in "peak" mode: <<>> when the peak is skipped
PeakModeColor(hist, peak) ==
    LET count == hist.counts[peak.index]
    IN  IF count = 0 THEN <<>>
        ELSE << [hue       |-> peak.index,
                 chroma    |-> Div(hist.chromaSum[peak.index], count),
                 lightness |-> Div(hist.lightnessSum[peak.index], count)] >>

\* the colour of a peak in "average" mode: <<>> when the peak is skipped
AverageModeColor(hist, smoothed, peak, threshold) ==
    LET indices  == getPeakIndices(peak)
        n        == Len(indices)
        peakBucketValue == smoothed[peak.index]
        taken(k) == /\ hist.counts[indices[k]] # 0
                    /\ ~Lt(Mul(smoothed[indices[k]], One),
                           Mul(peakBucketValue, threshold))
        w(k)     == IF taken(k) THEN smoothed[indices[k]] ELSE 0
        avgChroma(k)    == Div(hist.chromaSum[indices[k]], hist.counts[indices[k]])
        avgLightness(k) == Div(hist.lightnessSum[indices[k]], hist.counts[indices[k]])
        sum(term(_))    == SumRange([k \in 1 .. n |->
                                IF taken(k) THEN term(k) ELSE 0], 1, n)
        xTerm(k) == Mul(MathCos(indices[k]), w(k))
        yTerm(k) == Mul(MathSin(indices[k]), w(k))
        cTerm(k) == Mul(avgChroma(k), w(k))
        lTerm(k) == Mul(avgLightness(k), w(k))
        totalWeight       == sum(w)
        hueX              == sum(xTerm)
        hueY              == sum(yTerm)
        chromaWeighted    == sum(cTerm)
        lightnessWeighted == sum(lTerm)
    IN  IF ~IsNaN(totalWeight) /\ totalWeight <= 0 THEN <<>>
        ELSE << [hue       |-> HueOfVector(hueY, hueX),
                 chroma    |-> Div(chromaWeighted, totalWeight),
                 lightness |-> Div(lightnessWeighted, totalWeight)] >>

\* Math.max(lo, Math.min(hi, x))
Clamp(x, lo, hi) == IF IsNaN(x) THEN NaN ELSE Max2(lo, Min2(hi, x))

\* the PeakColor pushed for a peak (none when the peak is skipped); cssColor
\* is the three numbers printed by toFixed(3), toFixed(3) and toFixed(1), in
\* thousandths, thousandths and tenths
PeakColorOf(hist, smoothed, peak, opt) ==
    LET weight == calculatePeakWeight(smoothed, peak)
        raw    == IF opt.mode = "peak" THEN PeakModeColor(hist, peak)
                  ELSE AverageModeColor(hist, smoothed, peak, opt.threshold)
    IN  IF raw = <<>> THEN <<>>
        ELSE LET lightness == Clamp(raw[1].lightness, 0, One)
                 chroma    == Clamp(raw[1].chroma, 0, 400)
                 hue       == raw[1].hue
             IN  << [hue |-> hue, chroma |-> chroma, lightness |-> lightness,
                     weight |-> weight,
                     cssColor |-> <<lightness, chroma, Mul(hue, 10)>>,
                     peak |-> peak] >>

\* `results` after the loop over the first k peaks
RECURSIVE ResultsUpTo(_, _, _, _, _)
ResultsUpTo(hist, peakList, smoothed, opt, k) ==
    IF k = 0 THEN <<>>
    ELSE ResultsUpTo(hist, peakList, smoothed, opt, k - 1)
         \o PeakColorOf(hist, smoothed, peakList[k], opt)

\* results.sort((a, b) => b.weight - a.weight)
SortedResults(hist, peakList, smoothed, opt) ==
    SortDescending(ResultsUpTo(hist, peakList, smoothed, opt, Len(peakList)),
                   "weight")

\* list.slice(0, end)
Slice(list, end) ==
    LET stop == IF end < 0 THEN Max2(Len(list) + end, 0) ELSE Min2(end, Len(list))
    IN  SubSeq(list, 1, stop)

\* `name = dflt` in a destructuring: the default when the property is undefined
OrDefault(v, dflt) == IF v = Undefined THEN dflt ELSE v

\* const { mode, threshold = 0, maxColors = 5, minDistance = 0 } = options
Destructure(opt) ==
    [mode        |-> opt.mode,
     threshold   |-> OrDefault(opt.threshold, 0),
     maxColors   |-> OrDefault(opt.maxColors, 5),
     minDistance |-> OrDefault(opt.minDistance, 0)]

\* extractPeakColors(histogram, peaks, smoothedBuckets, options)
extractPeakColors(hist, peakList, smoothed, opt) ==
    LET o == Destructure(opt)
    IN  Slice(filterByDistance(SortedResults(hist, peakList, smoothed, o),
                               o.minDistance),
              o.maxColors)

-----------------------------------------------------------------------------
(* extract-colors.ts : extractColors, from the loaded image on.  The options *)
(* of the call are drawn where the function first reads them.               *)

\* most pixels of a loaded image
MaxPixels == 4

\* the pixels of loaded images, all opaque
Palette == <<Rust, Ochre, Amber, Blue>>

\* the images of n pixels; the histogram does not depend on the order of the
\* pixels, so one order stands for all
RECURSIVE PixelRows(_, _)
PixelRows(n, from) ==
    IF n = 0 THEN { <<>> }
    ELSE UNION { { <<Palette[p] \o <<255>>>> \o rest :
                     rest \in PixelRows(n - 1, p) } :
                 p \in from .. Len(Palette) }

\* images of n pixels that are all fully transparent
TransparentImage(n) == ImageOf([k \in 1 .. n |-> Red \o <<0>>])

LoadedImages ==
    { ImageOf(ps) : ps \in UNION { PixelRows(n, 1) : n \in 0 .. MaxPixels } }
    \cup { TransparentImage(1), TransparentImage(MaxPixels) }

\* satThreshold, weightMode, lightnessMargin of the call (defaults 0.1,
\* "chroma", 0.1)
ColorsHistogramOptions ==
    [variant : {"smoothstep"}, weightMode : {"chroma", "count"},
     threshold : {100}, lightnessMargin : {100}]

\* sigma of the call (default 2), tenths
ColorsSigmas == {20, 0}

\* the same, and for an empty histogram also negative, 1 and 121
ColorsSigmasFor(buckets) ==
    IF buckets = ZeroBuckets THEN ColorsSigmas \cup {-10, 10, 1210}
    ELSE ColorsSigmas

\* minHeight of the call (default 0.005), thousandths
ColorsMinHeights == {5, 500}

\* the same, and for an empty histogram also 0, 0.1 and 1
ColorsMinHeightsFor(buckets) ==
    IF buckets = ZeroBuckets THEN ColorsMinHeights \cup {0, 100, One}
    ELSE ColorsMinHeights

\* colorMode, threshold, maxColors, minDistance of the call (defaults
\* "average", 0.2, 5, 10)
ColorsPeakOptions ==
    [mode : {"average", "peak"}, threshold : {200}, maxColors : {5, 1},
     minDistance : {1000, 0}]

\* the array passed to gaussianSmoothHistogram as buckets, after the call:
\* gaussian.ts reads buckets[idx] (line 45) and writes its own kernel and
\* result (lines 15, 47)
BucketsAfterSmoothing(buckets, s) == buckets

\* the array passed to detectPeaks as buckets, after the call: peaks.ts reads
\* it, and pushes to and sorts its own list (lines 42, 86)
BucketsAfterDetectPeaks(buckets) == buckets

\* mutant of PeaksAfterExtractPeakColors: the sort by weight is made on the list
\* passed in
PeaksSortedByWeight(peakList, smoothed) ==
    LET weighed == [k \in 1 .. Len(peakList) |->
                      [peak |-> peakList[k],
                       weight |-> calculatePeakWeight(smoothed, peakList[k])]]
        ranked  == SortDescending(weighed, "weight")
    IN  [k \in 1 .. Len(peakList) |-> ranked[k].peak]

\* the list passed to extractPeakColors as peaks, after the call: the loop of
\* line 340 reads it; results (line 338) is the array that is pushed to and
\* sorted (lines 410, 414)
PeaksAfterExtractPeakColors(peakList, smoothed) == peakList

\* const histogram = extractHueHistogram(imageData, {...})
HistogramStep ==
    /\ stage = "image"
    /\ \E opt \in ColorsHistogramOptions :
         /\ hOptions' = opt
         /\ histogram' = extractHueHistogram(imageData, opt)
    /\ stage' = "histogram"
    /\ UNCHANGED <<promise, imageData, sigma, smoothedBuckets, minHeight, peaks,
                   pOptions, sorted, filtered, peakColors, shared>>

\* const smoothedBuckets = gaussianSmoothHistogram(histogram.buckets, sigma)
SmoothStep ==
    /\ stage = "histogram"
    /\ \E s \in ColorsSigmasFor(histogram.buckets) :
         /\ sigma' = s
         /\ smoothedBuckets' = gaussianSmoothHistogram(histogram.buckets, HueBuckets, s)
         /\ shared' = ReturnsInputArray(s)
         /\ histogram' = [histogram EXCEPT
                              !.buckets = BucketsAfterSmoothing(@, s)]
    /\ stage' = "smoothed"
    /\ UNCHANGED <<promise, imageData, hOptions, minHeight, peaks,
                   pOptions, sorted, filtered, peakColors>>

\* const peaks = detectPeaks(smoothedBuckets, { minHeight })
PeaksStep ==
    /\ stage = "smoothed"
    /\ \E mh \in ColorsMinHeightsFor(histogram.buckets) :
         /\ minHeight' = mh
         /\ peaks' = detectPeaks(smoothedBuckets, HueBuckets, mh)
    /\ smoothedBuckets' = BucketsAfterDetectPeaks(smoothedBuckets)
    /\ stage' = "peaks"
    /\ UNCHANGED <<promise, imageData, hOptions, histogram, sigma,
                   pOptions, sorted, filtered, peakColors, shared>>

\* const peakColors = extractPeakColors(histogram, peaks, smoothedBuckets, {...})
PeakColorsStep ==
    /\ stage = "peaks"
    /\ \E opt \in ColorsPeakOptions :
         /\ pOptions' = opt
         /\ sorted' = SortedResults(histogram, peaks, smoothedBuckets, opt)
         /\ filtered' = filterByDistance(sorted', opt.minDistance)
         /\ peakColors' = extractPeakColors(histogram, peaks, smoothedBuckets, opt)
    /\ peaks' = PeaksAfterExtractPeakColors(peaks, smoothedBuckets)
    /\ stage' = "colors"
    /\ UNCHANGED <<promise, imageData, hOptions, histogram, sigma, smoothedBuckets,
                   minHeight, shared>>

Init ==
    /\ stage = "image"
    /\ imageData \in LoadedImages
    /\ hOptions = NoOptions
    /\ histogram = NoHistogram
    /\ smoothedBuckets = ZeroBuckets
    /\ InitRest

Next == HistogramStep \/ SmoothStep \/ PeaksStep \/ PeakColorsStep

Spec == Init /\ [][Next]_vars

-----------------------------------------------------------------------------
(* extractPeakColors called on its own, with the histogram, the smoothed     *)
(* buckets and the peaks the earlier stages return for an image, and with    *)
(* options the caller is free to choose or to omit.                          *)

\* most pixels of an image drawn freely from NearPixels or ClosePixels
MaxResolvePixels == 3

\* pixels of hue buckets 46, 51 and 66; Taupe has low chroma
NearPixels == <<Rust, Taupe, Gold>>

\* pixels whose peak colours are closer than Delta E 10
ClosePixels == <<Rust, Ochre>>

\* the rows of n opaque pixels of `pal`, one order for each multiset
RECURSIVE RowsOf(_, _, _)
RowsOf(pal, n, from) ==
    IF n = 0 THEN { <<>> }
    ELSE UNION { { <<pal[p] \o <<255>>>> \o rest : rest \in RowsOf(pal, n - 1, p) } :
                 p \in from .. Len(pal) }

RowsUpTo(pal, n) == UNION { RowsOf(pal, k, 1) : k \in 0 .. n }

\* n copies of an opaque pixel
Copies(rgb, n) == [k \in 1 .. n |-> rgb \o <<255>>]

\* a little Rust, a little Taupe and five times as much Gold, 20 buckets on
KernelEdgeImage == ImageOf(Copies(Rust, 2) \o Copies(Taupe, 2) \o Copies(Gold, 10))

\* four equal blocks at hue buckets 0, 90, 180 and 270
FourBlocksImage == ImageOf(<<Rose \o <<255>>, Olive \o <<255>>,
                             Teal \o <<255>>, Violet \o <<255>>>>)

\* the earlier calls of a caller: image, weightMode, sigma and minHeight
ResolverCalls ==
    { [image |-> ImageOf(ps), weightMode |-> wm, sigma |-> s, minHeight |-> 5] :
        ps \in RowsUpTo(NearPixels, MaxResolvePixels),
        wm \in {"chroma", "count"}, s \in {0, 20} }
    \cup { [image |-> ImageOf(ps), weightMode |-> "chroma", sigma |-> 20,
            minHeight |-> 5] :
             ps \in RowsUpTo(ClosePixels, MaxResolvePixels) }
    \cup { [image |-> KernelEdgeImage, weightMode |-> "chroma", sigma |-> 60,
            minHeight |-> 5] }
    \cup { [image |-> FourBlocksImage, weightMode |-> wm, sigma |-> 20,
            minHeight |-> 100] : wm \in {"chroma", "count"} }

\* every pixel of the image is one of ClosePixels
OnlyClosePixels(img) ==
    \A i \in 0 .. (img.width * img.height - 1) :
        \E p \in 1 .. Len(ClosePixels) :
            SubSeq(img.data, i * 4 + 1, i * 4 + 3) = ClosePixels[p]

\* options of a call: everything but mode may be left out
ResolverOptions ==
    [mode : {"peak", "average"}, threshold : {Undefined, 200, One},
     maxColors : {Undefined}, minDistance : {Undefined}]
    \cup [mode : {"peak"}, threshold : {Undefined}, maxColors : {-1, 0, 1, 2},
          minDistance : {0}]
    \cup [mode : {"average"}, threshold : {-500, 1500}, maxColors : {Undefined},
          minDistance : {Undefined}]
    \cup [mode : {"peak"}, threshold : {Undefined}, maxColors : {Undefined},
          minDistance : {-100}]

\* the same, and a positive minDistance where the colours are tabulated
ResolverOptionsFor(img) ==
    IF OnlyClosePixels(img)
    THEN ResolverOptions
         \cup [mode : {"peak", "average"}, threshold : {200},
               maxColors : {Undefined, -1, 0, 1}, minDistance : {1000}]
    ELSE ResolverOptions

\* extractPeakColors(histogram, peaks, smoothedBuckets, options)
ExtractPeakColors ==
    /\ stage = "peaks"
    /\ \E opt \in ResolverOptionsFor(imageData) :
         /\ pOptions' = opt
         /\ sorted' = SortedResults(histogram, peaks, smoothedBuckets,
                                    Destructure(opt))
         /\ filtered' = filterByDistance(sorted', Destructure(opt).minDistance)
         /\ peakColors' = extractPeakColors(histogram, peaks, smoothedBuckets, opt)
    /\ stage' = "colors"
    /\ UNCHANGED <<promise, imageData, hOptions, histogram, sigma, smoothedBuckets,
                   minHeight, peaks, shared>>

InitResolve ==
    /\ stage = "peaks"
    /\ \E c \in ResolverCalls :
         /\ imageData = c.image
         /\ hOptions = [variant |-> "smoothstep", weightMode |-> c.weightMode,
                        threshold |-> 100, lightnessMargin |-> 100]
         /\ histogram = extractHueHistogram(imageData, hOptions)
         /\ sigma = c.sigma
         /\ smoothedBuckets =
                gaussianSmoothHistogram(histogram.buckets, HueBuckets, sigma)
         /\ minHeight = c.minHeight
         /\ peaks = detectPeaks(smoothedBuckets, HueBuckets, minHeight)
    /\ pOptions = NoOptions
    /\ sorted = <<>>
    /\ filtered = <<>>
    /\ peakColors = <<>>
    /\ shared = FALSE
    /\ promise = NoPromise

NextResolve == ExtractPeakColors

SpecResolve == InitResolve /\ [][NextResolve]_vars

-----------------------------------------------------------------------------
(* Properties of extractColors *)

\* every pixel of the image has alpha 0
FullyTransparent(img) ==
    /\ Len(img.data) = img.width * img.height * 4
    /\ \A i \in 0 .. (img.width * img.height - 1) : img.data[i * 4 + 4] = 0

\* C19: for an image whose every pixel has alpha 0 the histogram is all zero
\* with max = 0 and total = 0, detectPeaks returns no peaks for any sigma and
\* any minHeight, and extractPeakColors returns no colours.
C19_TransparentImageYieldsNothing ==
    FullyTransparent(imageData) =>
        /\ stage # "image" =>
              /\ \A f \in {"buckets", "chromaSum", "lightnessSum", "counts"} :
                    histogram[f] = ZeroBuckets
              /\ histogram.max = 0
              /\ histogram.total = 0
        /\ stage \in {"peaks", "colors"} => peaks = <<>>
        /\ stage = "colors" =>
              sorted = <<>> /\ filtered = <<>> /\ peakColors = <<>>

C19_Witness ==
    /\ stage = "colors"
    /\ imageData.width > 1
    /\ FullyTransparent(imageData)
    /\ sigma = 1210
    /\ \E i \in BucketIdx : IsNaN(smoothedBuckets[i])
    /\ minHeight = 0

-----------------------------------------------------------------------------
(* Properties of extractPeakColors *)

\* C1: filterByDistance is idempotent: for minDistance > 0, filtering the
\* filtered list again with the same minDistance gives the same list.
C1_FilterIdempotent ==
    (stage = "colors" /\ pOptions.minDistance > 0) =>
        filterByDistance(filtered, pOptions.minDistance) = filtered

\* C2: with minDistance > 0, every two colours returned by extractPeakColors
\* are at least minDistance apart.
C2_PairwiseApart ==
    (stage = "colors" /\ pOptions.minDistance > 0) =>
        \A i, j \in 1 .. Len(peakColors) :
            i # j => colorDistance(peakColors[i], peakColors[j])
                        >= pOptions.minDistance

\* C3: the list returned by extractPeakColors is in order of weight, largest
\* first, for every mode, every minDistance and every maxColors >= 1.
C3_SortedByWeight ==
    (stage = "colors" /\ pOptions.maxColors >= 1) =>
        \A k \in 1 .. (Len(peakColors) - 1) :
            peakColors[k].weight >= peakColors[k + 1].weight

\* the peak is one of the peaks given to extractPeakColors
FromInputPeak(c) == \E j \in 1 .. Len(peaks) : peaks[j] = c.peak

\* C13: in peak mode no returned colour comes from a peak whose
\* counts[peak.index] is 0, and every returned colour has the index of its
\* peak as hue, chromaSum[index] / counts[index] as chroma and
\* lightnessSum[index] / counts[index] as lightness (then clamped).
C13_PeakModeColours ==
    (stage = "colors" /\ pOptions.mode = "peak") =>
        \A k \in 1 .. Len(peakColors) :
            LET c == peakColors[k]
                i == c.peak.index
            IN  /\ FromInputPeak(c)
                /\ histogram.counts[i] # 0
                /\ c.hue = i
                /\ c.chroma =
                     Clamp(Div(histogram.chromaSum[i], histogram.counts[i]), 0, 400)
                /\ c.lightness =
                     Clamp(Div(histogram.lightnessSum[i], histogram.counts[i]), 0, One)

\* peak mode returned a colour, and left out a peak on an empty bucket
C13_Witness ==
    /\ stage = "colors"
    /\ pOptions.mode = "peak"
    /\ Len(peakColors) >= 2
    /\ \E j \in 1 .. Len(peaks) : histogram.counts[peaks[j].index] = 0
    /\ \E k \in 1 .. Len(peakColors) : histogram.counts[peakColors[k].hue] > 1

\* distance of two hue buckets round the ring
CircularDistance(a, b) ==
    LET d == Abs(a - b) % HueBuckets IN Min2(d, HueBuckets - d)

\* number of steps from left to right along the arc
ArcWidth(peak) == (peak.right - peak.left + HueBuckets) % HueBuckets

\* C14 as stated: in average mode, for a threshold in [0,1], the circular
\* distance between a returned colour's hue and the index of its peak is at
\* most half the width of the peak's arc (half a degree is allowed for the
\* hue being held in whole degrees).
C14_HueWithinHalfArcWidth ==
    (/\ stage = "colors"
     /\ pOptions.mode = "average"
     /\ Destructure(pOptions).threshold \in 0 .. One) =>
        \A k \in 1 .. Len(peakColors) :
            2 * CircularDistance(peakColors[k].hue, peakColors[k].peak.index)
                <= ArcWidth(peakColors[k].peak) + 1

\* C14, amended: in average mode, for every threshold, a returned colour's hue
\* lies on the arc left..right of its peak (arcs narrower than half the ring),
\* so its distance from the peak's index is at most the larger of the
\* distances from the index to left and to right.
C14_HueWithinArc ==
    (stage = "colors" /\ pOptions.mode = "average") =>
        \A k \in 1 .. Len(peakColors) :
            LET c == peakColors[k]
            IN  /\ FromInputPeak(c)
                /\ 2 * ArcWidth(c.peak) < HueBuckets
                /\ InArc(c.peak.left, c.peak.right, c.hue)
                /\ CircularDistance(c.hue, c.peak.index)
                     <= Max2(CircularDistance(c.peak.index, c.peak.left),
                             CircularDistance(c.peak.index, c.peak.right))

\* average mode returned a colour whose hue is farther from the index of its
\* peak than half the width of the arc
C14_Witness ==
    /\ stage = "colors"
    /\ pOptions.mode = "average"
    /\ Destructure(pOptions).threshold \in 0 .. One
    /\ \E k \in 1 .. Len(peakColors) :
         /\ 2 * CircularDistance(peakColors[k].hue, peakColors[k].peak.index)
               > ArcWidth(peakColors[k].peak) + 1
         /\ histogram.counts[peakColors[k].peak.index] = 0

\* the one of two colours, heavier first, with the higher chroma; the
\* heavier when the chromas are equal
HigherChroma(heavier, lighter) ==
    IF lighter.chroma > heavier.chroma THEN lighter ELSE heavier

\* C15: when exactly two colours are resolved and their distance is below
\* minDistance > 0, extractPeakColors returns exactly one colour, the one with
\* the higher chroma (with equal chroma, the one with the higher weight).
C15_TwoCloseColoursMerge ==
    (/\ stage = "colors"
     /\ Len(sorted) = 2
     /\ Destructure(pOptions).minDistance > 0
     /\ colorDistance(sorted[1], sorted[2]) < Destructure(pOptions).minDistance) =>
        /\ Len(peakColors) = 1
        /\ peakColors[1] = HigherChroma(sorted[1], sorted[2])

\* C16: extractPeakColors returns at most maxColors colours (5 when maxColors
\* is left out), they are the first maxColors entries of the ranked and merged
\* list, and there are never more of them than peaks given.
C16_AtMostMaxColors ==
    stage = "colors" =>
        LET maxColors == Destructure(pOptions).maxColors
        IN  /\ Len(peakColors) <= maxColors
            /\ peakColors = SubSeq(filtered, 1, Min2(maxColors, Len(filtered)))
            /\ Len(peakColors) <= Len(peaks)

\* the options are outside the documented domain: maxColors < 1, threshold
\* outside [0,1] or minDistance < 0
OutOfDomain(opt) ==
    \/ Destructure(opt).maxColors < 1
    \/ Destructure(opt).threshold < 0
    \/ Destructure(opt).threshold > One
    \/ Destructure(opt).minDistance < 0

\* the options brought back into the documented domain
ClampedIntoDomain(opt) ==
    [mode        |-> opt.mode,
     threshold   |-> Clamp(Destructure(opt).threshold, 0, One),
     maxColors   |-> Max2(1, Destructure(opt).maxColors),
     minDistance |-> Max2(0, Destructure(opt).minDistance)]

\* C18: for options outside the documented domain extractPeakColors does not
\* return a list computed from the out-of-range value: it returns what the
\* options clamped into the domain give (the call has no other way to end
\* than returning a list).
C18_OutOfDomainClampedOrRejected ==
    (stage = "colors" /\ OutOfDomain(pOptions)) =>
        peakColors = extractPeakColors(histogram, peaks, smoothedBuckets,
                                       ClampedIntoDomain(pOptions))

\* the buckets 0, 90, 180 and 270
FourHues == {0, 90, 180, 270}

\* weight and count are non-zero only in the buckets of FourHues, and the
\* weight is the same in each
FourEqualBlocks(h) ==
    /\ h # NoHistogram
    /\ \A i \in BucketIdx \ FourHues : h.buckets[i] = 0 /\ h.counts[i] = 0
    /\ \A i \in FourHues :
         h.buckets[i] > 0 /\ h.counts[i] > 0 /\ h.buckets[i] = h.buckets[0]

\* C20: for a histogram with equal weight in the buckets 0, 90, 180 and 270
\* and none elsewhere, sigma 2 and minHeight 0.1 give exactly four peaks, at
\* 0, 90, 180 and 270, the arc of the one at 0 running through the end of
\* the ring; peak mode (without merging, maxColors at least 4) returns exactly
\* four colours, with hues 0, 90, 180 and 270.
C20_FourBlocks ==
    (/\ stage \in {"peaks", "colors"}
     /\ FourEqualBlocks(histogram)
     /\ sigma = 20
     /\ minHeight = 100) =>
        /\ Len(peaks) = 4
        /\ { peaks[j].index : j \in 1 .. 4 } = FourHues
        /\ \A j \in 1 .. 4 :
             peaks[j].index = 0 =>
                 /\ peaks[j].left > peaks[j].right
                 /\ InArc(peaks[j].left, peaks[j].right, HueBuckets - 1)
                 /\ InArc(peaks[j].left, peaks[j].right, 1)
        /\ (/\ stage = "colors"
            /\ pOptions.mode = "peak"
            /\ Destructure(pOptions).maxColors >= 4
            /\ Destructure(pOptions).minDistance <= 0) =>
               /\ Len(peakColors) = 4
               /\ { peakColors[k].hue : k \in 1 .. 4 } = FourHues

C20_Witness ==
    /\ stage = "colors"
    /\ FourEqualBlocks(histogram)
    /\ sigma = 20
    /\ minHeight = 100
    /\ pOptions.mode = "peak"
    /\ Len(peakColors) = 4
    /\ \E j \in 1 .. Len(peaks) :
         peaks[j].index = 0 /\ peaks[j].left > peaks[j].right

-----------------------------------------------------------------------------
(* Further properties of the peak stage *)

\* C29: for every peak, left lies at most 179 steps counter-clockwise from
\* index and right at most 179 steps clockwise; the arc has at most 359
\* buckets, leaves out at least one bucket of the ring, does not wrap onto
\* itself (no bucket is reached from both sides), and the values strictly
\* decrease from index to left and from index to right.
C29_ArcWithinScanLimit ==
    stage = "peaks" =>
        \A k \in 1 .. Len(peaks) :
            LET nl == BoundarySteps(peaks[k], -1)
                nr == BoundarySteps(peaks[k], 1)
            IN  /\ nl <= 179
                /\ nr <= 179
                /\ nl + nr + 1 <= 359
                /\ \E i \in BucketIdx : ~InArc(peaks[k].left, peaks[k].right, i)
                /\ \A a \in 0 .. nl : \A b \in 0 .. nr :
                      StepsOut(peaks[k], -1, a) = StepsOut(peaks[k], 1, b)
                          => a = 0 /\ b = 0
                /\ Cardinality({ i \in BucketIdx :
                                   InArc(peaks[k].left, peaks[k].right, i) })
                     = nl + nr + 1
                /\ StrictlyDecreasingOut(smoothedBuckets, peaks[k], -1, nl)
                /\ StrictlyDecreasingOut(smoothedBuckets, peaks[k], 1, nr)

\* both walks of a peak went on to the scan limit
C29_Witness ==
    /\ stage = "peaks"
    /\ \E k \in 1 .. Len(peaks) :
         /\ BoundarySteps(peaks[k], -1) = 179
         /\ BoundarySteps(peaks[k], 1) = 179
         /\ peaks[k].right < peaks[k].left

\* the peaks whose arc holds bucket i
ArcsOver(i) ==
    { k \in 1 .. Len(peaks) : InArc(peaks[k].left, peaks[k].right, i) }

\* bucket i is smaller than both ring neighbours
StrictLocalMinimum(b, i) ==
    /\ b[i] < b[(i - 1) % HueBuckets]
    /\ b[i] < b[(i + 1) % HueBuckets]

\* C28: a bucket that lies in the arcs of two different peaks is a strict
\* local minimum; no bucket lies in the arcs of three peaks; no peak's index
\* lies in the arc of another peak; and a bucket equal to a ring neighbour
\* (a flat valley) lies in the arc of at most one peak.
C28_ArcsMeetAtValleyBottoms ==
    stage = "peaks" =>
        /\ \A i \in BucketIdx :
              /\ Cardinality(ArcsOver(i)) <= 2
              /\ Cardinality(ArcsOver(i)) = 2
                    => StrictLocalMinimum(smoothedBuckets, i)
              /\ (\/ smoothedBuckets[i] = smoothedBuckets[(i - 1) % HueBuckets]
                  \/ smoothedBuckets[i] = smoothedBuckets[(i + 1) % HueBuckets])
                    => Cardinality(ArcsOver(i)) <= 1
        /\ \A k \in 1 .. Len(peaks) : ArcsOver(peaks[k].index) = {k}

\* three peaks: two share the bucket at the bottom of the valley between
\* them, and a flat valley separates the third, whose arc meets no other
C28_Witness ==
    /\ stage = "peaks"
    /\ Len(peaks) = 3
    /\ \E i \in BucketIdx : Cardinality(ArcsOver(i)) = 2
    /\ \E k \in 1 .. 3 :
         /\ \A i \in BucketIdx : k \in ArcsOver(i) => ArcsOver(i) = {k}
         /\ smoothedBuckets[(peaks[k].right + 1) % HueBuckets]
              = smoothedBuckets[peaks[k].right]
         /\ smoothedBuckets[(peaks[k].left - 1) % HueBuckets]
              = smoothedBuckets[peaks[k].left]

-----------------------------------------------------------------------------
(* Further properties of extractPeakColors *)

\* the sum of b over the buckets of the arc left..right, each taken once
ArcSum(b, left, right) ==
    SumRange([i \in BucketIdx |-> IF InArc(left, right, i) THEN b[i] ELSE 0],
             0, HueBuckets - 1)

\* C26: the weight of every resolved colour is the sum of smoothedBuckets
\* over the buckets of its peak's arc, each once (left..right, or left..359
\* and 0..right when right < left), whatever the mode, the threshold and the
\* buckets that have samples.
C26_WeightIsArcSum ==
    stage = "colors" =>
        \A k \in 1 .. Len(sorted) :
            /\ FromInputPeak(sorted[k])
            /\ sorted[k].weight =
                 ArcSum(smoothedBuckets, sorted[k].peak.left, sorted[k].peak.right)

\* average mode with threshold 1 resolved a colour for a peak whose arc runs
\* through the end of the ring and holds buckets without samples
C26_Witness ==
    /\ stage = "colors"
    /\ pOptions.mode = "average"
    /\ pOptions.threshold = One
    /\ \E k \in 1 .. Len(peakColors) :
         LET pk == peakColors[k].peak
         IN  /\ pk.right < pk.left
             /\ peakColors[k].weight > smoothedBuckets[pk.index]
             /\ histogram.counts[(pk.left + 1) % HueBuckets] = 0
             /\ smoothedBuckets[(pk.left + 1) % HueBuckets] > 0

\* the accepted list after the first k candidates of `colors`, by the rule of
\* C24: the first accepted colour within minDistance decides
RECURSIVE AcceptedAfter(_, _, _)
AcceptedAfter(colors, minDistance, k) ==
    IF k = 0 THEN <<>>
    ELSE LET accepted  == AcceptedAfter(colors, minDistance, k - 1)
             candidate == colors[k]
             within(i) == colorDistance(candidate, accepted[i]) < minDistance
             first     == CHOOSE i \in 1 .. Len(accepted) :
                              within(i) /\ \A j \in 1 .. (i - 1) : ~within(j)
         IN  IF \A i \in 1 .. Len(accepted) : ~within(i)
             THEN accepted \o <<candidate>>
             ELSE IF candidate.chroma > accepted[first].chroma
                  THEN [i \in 1 .. Len(accepted) |->
                           IF i = first THEN candidate ELSE accepted[i]]
                  ELSE accepted

Elements(list) == { list[i] : i \in 1 .. Len(list) }

\* the accepted list of filterByDistance after the first k colours
AcceptedByCode(colors, minDistance, k) ==
    filterByDistance(SubSeq(colors, 1, k), minDistance)

\* C30: the merged list holds only colours of the ranked list, none of them
\* twice, is no longer than the ranked list and is not empty unless the ranked
\* list is; every colour of the ranked list that is missing from it was within
\* minDistance of an accepted colour when it was dropped, or of the candidate
\* that took its place in the accepted list.
C30_MergeOutput ==
    stage = "colors" =>
        LET minDistance == Destructure(pOptions).minDistance
            accepted(k) == AcceptedByCode(sorted, minDistance, k)
        IN  /\ Elements(filtered) \subseteq Elements(sorted)
            /\ \A i, j \in 1 .. Len(filtered) : filtered[i] = filtered[j] => i = j
            /\ Len(filtered) <= Len(sorted)
            /\ sorted # <<>> => filtered # <<>>
            /\ \A k \in 1 .. Len(sorted) :
                 sorted[k] \notin Elements(filtered) =>
                    /\ minDistance > 0
                    /\ \/ /\ sorted[k] \notin Elements(accepted(k))
                          /\ \E a \in Elements(accepted(k - 1)) :
                                colorDistance(sorted[k], a) < minDistance
                       \/ \E j \in (k + 1) .. Len(sorted) :
                             /\ sorted[k] \in Elements(accepted(j - 1))
                             /\ sorted[k] \notin Elements(accepted(j))
                             /\ sorted[j] \in Elements(accepted(j))
                             /\ colorDistance(sorted[j], sorted[k]) < minDistance

\* of three ranked colours the second was dropped and the third took the
\* place of the first
C30_Witness ==
    /\ stage = "colors"
    /\ Destructure(pOptions).minDistance > 0
    /\ Len(sorted) = 3
    /\ filtered = <<sorted[3]>>
    /\ AcceptedByCode(sorted, Destructure(pOptions).minDistance, 2) = <<sorted[1]>>

-----------------------------------------------------------------------------
(* Further properties of the histogram stage *)

\* the pixels the loop of the call reaches line 83 with: opaque enough, inside
\* the lightness window and, in the minChroma variant, of chroma >= minChroma
AccumulatedPixels(img, opt) ==
    { i \in WholePixels(img) :
        /\ PassesAlphaAndLightness(img, i, opt)
        /\ opt.variant = "minChroma" => ~BelowChromaThreshold(img, i, opt) }

PixelBucket(img, i) == HueBucket(PixelLch(img, i)[3])

\* C23: in every returned histogram, a bucket whose count is 0 has chromaSum,
\* lightnessSum and weight 0, and the count of a bucket is exactly the number
\* of pixels accumulated into it.
C23_CountsAreExact ==
    stage = "histogram" =>
        \A b \in BucketIdx :
            /\ histogram.counts[b] = 0 =>
                    /\ histogram.chromaSum[b] = 0
                    /\ histogram.lightnessSum[b] = 0
                    /\ histogram.buckets[b] = 0
            /\ histogram.counts[b] =
                    Cardinality({ i \in AccumulatedPixels(imageData, hOptions) :
                                    PixelBucket(imageData, i) = b })

\* C23 witness: one pixel was accumulated and counted, another was skipped and
\* left its bucket with count and sums 0
C23_Witness ==
    /\ stage = "histogram"
    /\ \E i \in AccumulatedPixels(imageData, hOptions) :
          /\ histogram.counts[PixelBucket(imageData, i)] = 1
          /\ histogram.chromaSum[PixelBucket(imageData, i)] > 0
    /\ \E i \in WholePixels(imageData) \ AccumulatedPixels(imageData, hOptions) :
          /\ histogram.counts[PixelBucket(imageData, i)] = 0
          /\ histogram.chromaSum[PixelBucket(imageData, i)] = 0

\* options with a lightness window that is empty: lightnessMargin > 0.5
WideMarginOptions ==
    [variant : {"smoothstep", "minChroma"}, weightMode : {"count", "chroma"},
     threshold : {20}, lightnessMargin : {600}]

\* extractHueHistogram(imageData, opt), either variant, with lightnessMargin 0.6
ExtractHueHistogramWideMargin ==
    /\ stage = "image"
    /\ \E opt \in WideMarginOptions :
         /\ hOptions' = opt
         /\ histogram' = extractHueHistogram(imageData, opt)
    /\ stage' = "histogram"
    /\ UNCHANGED <<promise, imageData, sigma, smoothedBuckets, minHeight, peaks,
                   pOptions, sorted, filtered, peakColors, shared>>

NextMargin ==
    ExtractHueHistogram \/ ExtractHueHistogramMinChroma
        \/ ExtractHueHistogramWideMargin

(* The histogram stage with margins up to 0.6 *)
SpecMargin == InitHist /\ [][NextMargin]_vars

\* the accumulator of the loop before it handles pixel i
AccBefore(img, opt, i) == ScanPixels(EmptyAcc, img.data, 0, i, opt)

\* C25: a pixel with alpha below 200, or with lightness below lightnessMargin or
\* above 1 - lightnessMargin, leaves the four sequences and total as they were;
\* a pixel with alpha >= 200 inside the window goes on to accumulation (it is
\* counted in its bucket, unless the minChroma variant finds its chroma below
\* minChroma); with lightnessMargin > 0.5 no pixel is included.
C25_SkippedPixelsChangeNothing ==
    stage = "histogram" =>
        /\ \A i \in WholePixels(imageData) :
              LET before == AccBefore(imageData, hOptions, i)
                  after  == AccBefore(imageData, hOptions, i + 1)
                  b      == PixelBucket(imageData, i)
              IN  IF PassesAlphaAndLightness(imageData, i, hOptions)
                  THEN IF hOptions.variant = "minChroma"
                          /\ BelowChromaThreshold(imageData, i, hOptions)
                       THEN after = before
                       ELSE /\ after.counts[b] = before.counts[b] + 1
                            /\ after.chromaSum[b] =
                                   before.chromaSum[b] + PixelLch(imageData, i)[2]
                            /\ after.lightnessSum[b] =
                                   before.lightnessSum[b] + PixelLch(imageData, i)[1]
                  ELSE after = before
        /\ hOptions.lightnessMargin > One \div 2 =>
              /\ \A f \in {"buckets", "chromaSum", "lightnessSum", "counts"} :
                    histogram[f] = ZeroBuckets
              /\ histogram.total = 0

\* C25 witness: with lightnessMargin 0.1 an opaque pixel outside the lightness
\* window was skipped and the other pixel of the image was counted
C25_Witness ==
    /\ stage = "histogram"
    /\ hOptions.lightnessMargin = 100
    /\ imageData.width = 2
    /\ \E i \in WholePixels(imageData) :
          /\ ~PassesAlphaAndLightness(imageData, i, hOptions)
          /\ PixelAlpha(imageData, i) = 255
    /\ \E i \in WholePixels(imageData) :
          /\ PassesAlphaAndLightness(imageData, i, hOptions)
          /\ histogram.counts[PixelBucket(imageData, i)] = 1
    /\ histogram.total > 0

-----------------------------------------------------------------------------
(* The sums of the histogram in IEEE 754 double precision.  A positive      *)
(* double is m * 2^(e - 52) with the 53-bit significand m = hi * 2^26 + lo, *)
(* 2^26 <= hi < 2^27; the sums of hue-histogram.ts are of such numbers.     *)

RECURSIVE Pow2(_)
Pow2(n) == IF n = 0 THEN 1 ELSE 2 * Pow2(n - 1)

Limb == Pow2(26)

DoubleZero == [e |-> 0, hi |-> 0, lo |-> 0]

DoubleOne == [e |-> 0, hi |-> Limb, lo |-> 0]

\* the significand of x moved d places down: what is left, the first bit that
\* fell off (g) and whether any lower bit that fell off was set (s)
ShiftRight(x, d) ==
    IF d = 0 THEN [hi |-> x.hi, lo |-> x.lo, g |-> 0, s |-> FALSE]
    ELSE IF d < 26
    THEN [hi |-> x.hi \div Pow2(d),
          lo |-> x.lo \div Pow2(d) + (x.hi % Pow2(d)) * Pow2(26 - d),
          g  |-> (x.lo \div Pow2(d - 1)) % 2,
          s  |-> x.lo % Pow2(d - 1) # 0]
    ELSE IF d = 26
    THEN [hi |-> 0, lo |-> x.hi,
          g  |-> (x.lo \div Pow2(25)) % 2,
          s  |-> x.lo % Pow2(25) # 0]
    ELSE [hi |-> 0, lo |-> x.hi \div Pow2(d - 26),
          g  |-> (x.hi \div Pow2(d - 27)) % 2,
          s  |-> x.hi % Pow2(d - 27) # 0 \/ x.lo # 0]

\* round to nearest, ties to even
RoundToNearest(e, hi, lo, g, s) ==
    LET up  == g = 1 /\ (s \/ lo % 2 = 1)
        lo1 == IF up THEN lo + 1 ELSE lo
        hi1 == hi + lo1 \div Limb
    IN  IF hi1 = 2 * Limb THEN [e |-> e + 1, hi |-> Limb, lo |-> 0]
        ELSE [e |-> e, hi |-> hi1, lo |-> lo1 % Limb]

\* x + y of two non-negative doubles
DoubleAdd(x, y) ==
    IF x = DoubleZero THEN y
    ELSE IF y = DoubleZero THEN x
    ELSE LET big   == IF x.e >= y.e THEN x ELSE y
             small == IF x.e >= y.e THEN y ELSE x
             d     == big.e - small.e
         IN  IF d > 53 THEN big
             ELSE LET q   == ShiftRight(small, d)
                      lo  == big.lo + q.lo
                      hi  == big.hi + q.hi + lo \div Limb
                      lo0 == lo % Limb
                  IN  IF hi < 2 * Limb
                      THEN RoundToNearest(big.e, hi, lo0, q.g, q.s)
                      ELSE RoundToNearest(big.e + 1, hi \div 2,
                                          lo0 \div 2 + (hi % 2) * Pow2(25),
                                          lo0 % 2, q.g = 1 \/ q.s)

\* x < y
DoubleLess(x, y) ==
    IF y = DoubleZero THEN FALSE
    ELSE IF x = DoubleZero THEN TRUE
    ELSE \/ x.e < y.e
         \/ x.e = y.e /\ x.hi < y.hi
         \/ x.e = y.e /\ x.hi = y.hi /\ x.lo < y.lo

\* Math.max(...buckets)
MathMaxDouble(arr) ==
    CHOOSE m \in { arr[i] : i \in BucketIdx } :
        \A i \in BucketIdx : ~DoubleLess(m, arr[i])

\* the distance of two doubles whose exponents differ by at most 1, in units
\* of the last place of the smaller; FarApart when they are further apart
FarApart == Limb

UlpDistance(x, y) ==
    IF x = y THEN 0
    ELSE IF x = DoubleZero \/ y = DoubleZero \/ Abs(x.e - y.e) > 1 THEN FarApart
    ELSE LET sx == IF x.e > y.e THEN 2 ELSE 1
             sy == IF y.e > x.e THEN 2 ELSE 1
             dh == sx * x.hi - sy * y.hi
         IN  IF Abs(dh) > 8 THEN FarApart
             ELSE Abs(dh * Limb + (sx * x.lo - sy * y.lo))

\* L and C of rgbToOklch as doubles, on the pixels of the sharded images
rgbToOklchDouble(r, g, b) ==
    CASE <<r, g, b>> = Rust ->
            <<[e |-> -2, hi |-> 126165362, lo |-> 18702614],
              [e |-> -4, hi |-> 84713912, lo |-> 51228446]>>
      [] <<r, g, b>> = Copper ->
            <<[e |-> -2, hi |-> 130304576, lo |-> 29324633],
              [e |-> -4, hi |-> 90559654, lo |-> 19374597]>>
      [] <<r, g, b>> = Teal ->
            <<[e |-> -1, hi |-> 92749001, lo |-> 15396815],
              [e |-> -4, hi |-> 132069856, lo |-> 27183488]>>

ZeroDoubles == [i \in BucketIdx |-> DoubleZero]

EmptyAccDouble ==
    [buckets |-> ZeroDoubles, chromaSum |-> ZeroDoubles,
     lightnessSum |-> ZeroDoubles, counts |-> ZeroBuckets, total |-> DoubleZero]

\* mutant of AccumulateDouble: chromaSum is overwritten, not added to
AccumulateDoubleOverwrites(acc, bucket, weight, l, c) ==
    [buckets      |-> [acc.buckets EXCEPT ![bucket] = DoubleAdd(@, weight)],
     chromaSum    |-> [acc.chromaSum EXCEPT ![bucket] = c],
     lightnessSum |-> [acc.lightnessSum EXCEPT ![bucket] = DoubleAdd(@, l)],
     counts       |-> [acc.counts EXCEPT ![bucket] = @ + 1],
     total        |-> DoubleAdd(acc.total, weight)]

\* lines 86-91 of hue-histogram.ts, the sums in doubles
AccumulateDouble(acc, bucket, weight, l, c) ==
    [buckets      |-> [acc.buckets EXCEPT ![bucket] = DoubleAdd(@, weight)],
     chromaSum    |-> [acc.chromaSum EXCEPT ![bucket] = DoubleAdd(@, c)],
     lightnessSum |-> [acc.lightnessSum EXCEPT ![bucket] = DoubleAdd(@, l)],
     counts       |-> [acc.counts EXCEPT ![bucket] = @ + 1],
     total        |-> DoubleAdd(acc.total, weight)]

\* the weight of a pixel: 1 in mode count, c in mode chroma of the minChroma
\* variant
WeightDouble(opt, c) == IF opt.weightMode = "count" THEN DoubleOne ELSE c

\* body of the pixel loop, either variant, the sums in doubles
PixelStepDouble(acc, data, i, opt) ==
    LET offset == i * 4
        a   == DataAt(data, offset + 3)
        lch == rgbToOklch(DataAt(data, offset), DataAt(data, offset + 1),
                          DataAt(data, offset + 2))
        lc  == rgbToOklchDouble(DataAt(data, offset), DataAt(data, offset + 1),
                                DataAt(data, offset + 2))
    IN  IF Lt(a, 200) THEN acc
        ELSE IF opt.variant = "minChroma" /\ Lt(lch[2], opt.threshold) THEN acc
        ELSE IF Lt(lch[1], opt.lightnessMargin)
                \/ Lt(One - opt.lightnessMargin, lch[1])
        THEN acc
        ELSE AccumulateDouble(acc, HueBucket(lch[3]), WeightDouble(opt, lc[2]),
                              lc[1], lc[2])

RECURSIVE ScanPixelsDouble(_, _, _, _, _)
ScanPixelsDouble(acc, data, i, n, opt) ==
    IF i >= n THEN acc
    ELSE ScanPixelsDouble(PixelStepDouble(acc, data, i, opt), data, i + 1, n, opt)

\* extractHueHistogram(imageData, options), the sums in doubles
extractHueHistogramDouble(img, opt) ==
    LET acc == ScanPixelsDouble(EmptyAccDouble, img.data, 0,
                                img.width * img.height, opt)
    IN  [buckets |-> acc.buckets, chromaSum |-> acc.chromaSum,
         lightnessSum |-> acc.lightnessSum, counts |-> acc.counts,
         max |-> MathMaxDouble(acc.buckets), total |-> acc.total]

\* the pixels of the sharded images: two of one hue bucket and one of another
ShardPixels == { <<p[1], p[2], p[3], 255>> : p \in {Rust, Copper, Teal} }

\* the options under which every weight is 1 or the chroma of the pixel
ShardOptions ==
    [variant : {"smoothstep", "minChroma"}, weightMode : {"count"},
     threshold : {20}, lightnessMargin : {0}]
    \cup [variant : {"minChroma"}, weightMode : {"chroma"},
          threshold : {20}, lightnessMargin : {0}]

\* extractHueHistogram(imageData, opt), the sums in doubles
ExtractHueHistogramDouble ==
    /\ stage = "image"
    /\ \E opt \in ShardOptions :
         /\ hOptions' = opt
         /\ histogram' = extractHueHistogramDouble(imageData, opt)
    /\ stage' = "histogram"
    /\ UNCHANGED <<promise, imageData, sigma, smoothedBuckets, minHeight, peaks,
                   pOptions, sorted, filtered, peakColors, shared>>

InitShard ==
    /\ stage = "image"
    /\ imageData \in { ImageOf(ps) : ps \in SeqsUpTo(ShardPixels, MaxShardPixels) }
    /\ hOptions = NoOptions
    /\ histogram = NoHistogram
    /\ smoothedBuckets = ZeroBuckets
    /\ InitRest

NextShard == ExtractHueHistogramDouble

(* The histogram stage with its sums in doubles *)
SpecShard == InitShard /\ [][NextShard]_vars

-----------------------------------------------------------------------------
(* The histogram as a reduction over shards of the pixels *)

\* the pixels of an image, four bytes each
PixelsOf(img) ==
    [i \in 1 .. (img.width * img.height) |-> SubSeq(img.data, 4 * i - 3, 4 * i)]

\* the orders in which n pixels can be handled
Perms(n) ==
    { f \in [1 .. n -> 1 .. n] : \A i, j \in 1 .. n : f[i] = f[j] => i = j }

\* the sum of the non-zero elements at the indices S, lowest index first
RECURSIVE SumDoubles(_, _, _)
SumDoubles(arr, S, acc) ==
    IF S = {} THEN acc
    ELSE LET i == CHOOSE x \in S : \A y \in S : x <= y
         IN  SumDoubles(arr, S \ {i}, DoubleAdd(acc, arr[i]))

\* the histogram of one shard
ShardHistogram(pixels, opt) == extractHueHistogramDouble(ImageOf(pixels), opt)

\* two partial histograms merged: the four sequences added element by element,
\* max and total computed anew from the sum of the weight sequences
MergePartials(h1, h2) ==
    LET b == [i \in BucketIdx |-> DoubleAdd(h1.buckets[i], h2.buckets[i])]
    IN  [buckets      |-> b,
         chromaSum    |-> [i \in BucketIdx |->
                              DoubleAdd(h1.chromaSum[i], h2.chromaSum[i])],
         lightnessSum |-> [i \in BucketIdx |->
                              DoubleAdd(h1.lightnessSum[i], h2.lightnessSum[i])],
         counts       |-> [i \in BucketIdx |-> h1.counts[i] + h2.counts[i]],
         max          |-> MathMaxDouble(b),
         total        |-> SumDoubles(b, { i \in BucketIdx : b[i] # DoubleZero },
                                     DoubleZero)]

\* the orders in which the pixels of the image can be handled
Orders(img) ==
    LET px == PixelsOf(img)
    IN  { [i \in 1 .. Len(px) |-> px[p[i]]] : p \in Perms(Len(px)) }

\* the pixels cut after the first k, the two parts reduced apart and merged
ShardedHistogram(pixels, opt, k) ==
    MergePartials(ShardHistogram(SubSeq(pixels, 1, k), opt),
                  ShardHistogram(SubSeq(pixels, k + 1, Len(pixels)), opt))

\* every order of the pixels with every place to cut it
Shardings(img) ==
    { <<o, k>> : o \in Orders(img), k \in 0 .. (img.width * img.height) }

\* h and g hold the same counts, and sums that differ by at most n units in
\* the last place
AgreeUpToRounding(h, g, n) ==
    /\ h.counts = g.counts
    /\ \A f \in {"buckets", "chromaSum", "lightnessSum"} :
          \A i \in BucketIdx : UlpDistance(h[f][i], g[f][i]) <= n
    /\ UlpDistance(h.max, g.max) <= n
    /\ UlpDistance(h.total, g.total) <= n

\* C22 (as stated): for any split of the pixels into parts, and any order of
\* the pixels, adding the four sequences of the partial histograms element by
\* element and recomputing max and total gives exactly the histogram of the
\* whole buffer in one pass.
C22_ShardsMergeExactly ==
    stage = "histogram" =>
        \A s \in Shardings(imageData) :
            ShardedHistogram(s[1], hOptions, s[2]) = histogram

\* C22 (amended): the merged histogram has exactly the counts of the one-pass
\* histogram, and exactly its weights, max and total when every weight is 1
\* (mode count); chromaSum and lightnessSum, and the weights, max and total of
\* the other modes, are sums of doubles and agree with the one-pass histogram
\* up to rounding in the last place (at most one unit per pixel).
C22_ShardsMergeUpToRounding ==
    stage = "histogram" =>
        \A s \in Shardings(imageData) :
            LET merged == ShardedHistogram(s[1], hOptions, s[2])
            IN  /\ AgreeUpToRounding(merged, histogram,
                                     imageData.width * imageData.height)
                /\ hOptions.weightMode = "count" =>
                      /\ merged.buckets = histogram.buckets
                      /\ merged.max = histogram.max
                      /\ merged.total = histogram.total

\* C22 witness: three pixels of one bucket, cut after the first, give a
\* chromaSum that differs from the one-pass chromaSum in the last place
C22_Witness ==
    /\ stage = "histogram"
    /\ imageData.width = 3
    /\ \E s \in Shardings(imageData) :
          LET merged == ShardedHistogram(s[1], hOptions, s[2])
          IN  /\ s[1] = PixelsOf(imageData)
              /\ s[2] = 1
              /\ merged.counts = histogram.counts
              /\ \E i \in BucketIdx :
                    /\ histogram.counts[i] = 3
                    /\ merged.chromaSum[i] # histogram.chromaSum[i]
                    /\ UlpDistance(merged.chromaSum[i], histogram.chromaSum[i]) <= 3

-----------------------------------------------------------------------------
(* The stages and their inputs *)

-----------------------------------------------------------------------------
(* extract-colors.ts : loadImageData and the await of extractColors *)

\* extractColors has called loadImageData: the Image has its handlers and its
\* src, no event has come, both promises are pending
Loading ==
    [event |-> "none", load |-> "pending", value |-> NoImage, calls |-> 0,
     result |-> "pending"]

\* resolve(value) or reject(error) called on the promise of loadImageData: the
\* first call settles it, a later call changes nothing
Settle(p, outcome, value) ==
    IF p.load = "pending"
    THEN [p EXCEPT !.load = outcome, !.value = value, !.calls = @ + 1]
    ELSE [p EXCEPT !.calls = @ + 1]

\* what canvas.getContext("2d") and ctx.getImageData give in img.onload
CanvasOutcomes == {"data", "no context", "throws"}

\* img.onload (lines 41-65): without a context the promise is rejected and the
\* handler returns; when drawImage or getImageData throws (a canvas of width or
\* height 0) the handler ends with neither resolve nor reject; otherwise the
\* promise is resolved with the pixels
ImageOnLoad ==
    /\ stage = "loading"
    /\ promise.event = "none"
    /\ \E canvas \in CanvasOutcomes :
         \/ /\ canvas = "no context"
            /\ promise' = [Settle(promise, "rejected", NoImage)
                              EXCEPT !.event = "load"]
         \/ /\ canvas = "throws"
            /\ promise' = [promise EXCEPT !.event = "load"]
         \/ /\ canvas = "data"
            /\ \E img \in LoadedImages :
                  promise' = [Settle(promise, "fulfilled", img)
                                EXCEPT !.event = "load"]
    /\ UNCHANGED <<stage, imageData, hOptions, histogram, sigma, smoothedBuckets,
                   minHeight, peaks, pOptions, sorted, filtered, peakColors,
                   shared>>

\* img.onerror (lines 67-69)
ImageOnError ==
    /\ stage = "loading"
    /\ promise.event = "none"
    /\ promise' = [Settle(promise, "rejected", NoImage) EXCEPT !.event = "error"]
    /\ UNCHANGED <<stage, imageData, hOptions, histogram, sigma, smoothedBuckets,
                   minHeight, peaks, pOptions, sorted, filtered, peakColors,
                   shared>>

\* mutant of AwaitOutcome: the function goes on after a rejection
AwaitOutcomeGoesOn(p) == "image"

\* where extractColors is after `await loadImageData(url, size)` (line 99): at
\* the histogram call with the pixels, or out of the function with the error
AwaitOutcome(p) == IF p.load = "fulfilled" THEN "image" ELSE "rejected"

\* the continuation of line 99, run once the promise of loadImageData is
\* settled; a rejection rejects the promise extractColors returned
AwaitLoadImageData ==
    /\ stage = "loading"
    /\ promise.load # "pending"
    /\ stage' = AwaitOutcome(promise)
    /\ imageData' = promise.value
    /\ promise' = IF promise.load = "rejected"
                  THEN [promise EXCEPT !.result = "rejected"]
                  ELSE promise
    /\ UNCHANGED <<hOptions, histogram, sigma, smoothedBuckets, minHeight, peaks,
                   pOptions, sorted, filtered, peakColors, shared>>

\* return peakColors (line 124)
ReturnPeakColors ==
    /\ stage = "colors"
    /\ promise.result = "pending"
    /\ promise' = [promise EXCEPT !.result = "fulfilled"]
    /\ UNCHANGED <<stage, imageData, hOptions, histogram, sigma, smoothedBuckets,
                   minHeight, peaks, pOptions, sorted, filtered, peakColors,
                   shared>>

InitLoad ==
    /\ stage = "loading"
    /\ imageData = NoImage
    /\ hOptions = NoOptions
    /\ histogram = NoHistogram
    /\ smoothedBuckets = ZeroBuckets
    /\ sigma = 0
    /\ minHeight = 0
    /\ peaks = <<>>
    /\ pOptions = [mode |-> "none"]
    /\ sorted = <<>>
    /\ filtered = <<>>
    /\ peakColors = <<>>
    /\ shared = FALSE
    /\ promise = Loading

NextLoad ==
    \/ ImageOnLoad
    \/ ImageOnError
    \/ AwaitLoadImageData
    \/ HistogramStep
    \/ SmoothStep
    \/ PeaksStep
    \/ PeakColorsStep
    \/ ReturnPeakColors

(* extractColors from its call on: the continuation of a settled await is     *)
(* run; an event of the Image may never come                                  *)
SpecLoad ==
    /\ InitLoad
    /\ [][NextLoad]_vars
    /\ WF_vars(AwaitLoadImageData)

\* the order of the stages of extractColors
StageOrder ==
    { <<"loading", "image">>, <<"loading", "rejected">>,
      <<"image", "histogram">>, <<"histogram", "smoothed">>,
      <<"smoothed", "peaks">>, <<"peaks", "colors">> }

\* C21: in extractColors the stages run in the order load, histogram, smooth,
\* peaks, colours; the histogram stage starts only after the load has
\* completed, on the pixels it gave; and when the load fails by an image error
\* or for want of a 2D context, the promise is rejected, it is settled once,
\* the promise extractColors returned is rejected in the end, and no stage
\* runs.
C21_LoadThenStagesInOrder ==
    /\ [][/\ stage' # stage => <<stage, stage'>> \in StageOrder
          /\ promise.load # "pending" => promise'.load = promise.load
          /\ promise.result # "pending" => promise'.result = promise.result
         ]_vars
    /\ [](/\ stage \in {"image", "histogram", "smoothed", "peaks", "colors"} =>
                /\ promise.load = "fulfilled"
                /\ imageData = promise.value
          /\ promise.calls <= 1
          /\ promise.load = "rejected" =>
                /\ promise.calls = 1
                /\ stage \in {"loading", "rejected"}
                /\ histogram = NoHistogram
                /\ peakColors = <<>>
          /\ (promise.event = "error" => promise.load = "rejected"))
    /\ (promise.load = "rejected" ~> promise.result = "rejected")

\* C21 witness: the load event came, there was no 2D context, and the promise
\* extractColors returned is rejected without a stage having run
C21_Witness ==
    /\ stage = "rejected"
    /\ promise.event = "load"
    /\ promise.load = "rejected"
    /\ promise.result = "rejected"
    /\ promise.calls = 1
    /\ histogram = NoHistogram

====
